---- MODULE Spec2Model ----
(***************************************************************************)
(* Model of the Knugget backend's LinkedinService and                      *)
(* WebsiteSummaryService (src/src/services/linkedin.ts, website.ts) over   *)
(* the PostgreSQL tables of prisma/migrations/.../migration.sql.           *)
(*                                                                         *)
(* Every `await` of a service method is one atomic storage round trip, so  *)
(* a method with several awaits is a sequence of steps and the steps of    *)
(* concurrent requests interleave.  pc[p] is the position of request       *)
(* handler p: "done" (holding the outcome of its last call) or the await   *)
(* it is suspended at, with the call's arguments and locals.               *)
(***************************************************************************)
EXTENDS Integers, Sequences, FiniteSets, TLC

VARIABLES
    posts,      \* table linkedin_posts: a set of rows
    summaries,  \* table website_summaries: a set of rows
    nextId,     \* the next id cuid() hands out (ids are never reused)
    now,        \* the wall clock, in ticks
    pc,         \* per request handler: its position, arguments and outcome
    prev        \* history, kept by the sequential specifications: the outcome
                \* of the previous call and the tables when the current call
                \* began

vars == <<posts, summaries, nextId, now, pc, prev>>

-----------------------------------------------------------------------------
(* Bounds of the model *)

MaxId == 2      \* rows ever created
MaxClock == 1   \* clock ticks
MaxPage == 3    \* requested page <= MaxPage
MaxLimit == 2   \* requested limit <= MaxLimit
MaxRawLen == 3  \* characters of a raw page or limit query value

-----------------------------------------------------------------------------
(* Values.  A JavaScript string is the tuple of its characters; undefined  *)
(* and null are one-element tuples that are no string of the model.        *)

Undefined == <<"<undefined>">>
Null == <<"<null>">>
NullRec == [null |-> TRUE]          \* a query that found no row
EmptyObj == [x \in {} |-> x]        \* the object literal {}

\* JavaScript truthiness of a string-or-undefined-or-null value
Truthy(v) == v # Undefined /\ v # Null /\ v # <<>>

\* a || b
OrElse(a, b) == IF Truthy(a) THEN a ELSE b

\* ...(cond && obj) inside an object literal
SpreadIf(cond, obj) == IF cond THEN obj ELSE EmptyObj

\* obj.name, where an optional property may be absent
Get(obj, name) == IF name \in DOMAIN obj THEN obj[name] ELSE Undefined

LowerChar(c) ==
    CASE c = "A" -> "a"
      [] c = "B" -> "b"
      [] c = "L" -> "l"
      [] c = "T" -> "t"
      [] c = "X" -> "x"
      [] OTHER -> c

ToLower(s) == [i \in DOMAIN s |-> LowerChar(s[i])]

\* s LIKE %sub%
Contains(s, sub) ==
    \E i \in 0..(Len(s) - Len(sub)) : SubSeq(s, i + 1, i + Len(sub)) = sub

\* Prisma { contains: sub, mode: 'insensitive' } on a nullable text column
ContainsInsensitive(s, sub) ==
    /\ s # Null
    /\ Contains(ToLower(s), ToLower(sub))

\* String.prototype.trim
RECURSIVE TrimStart(_)
TrimStart(s) ==
    IF s # <<>> /\ Head(s) = " " THEN TrimStart(Tail(s)) ELSE s

RECURSIVE TrimEnd(_)
TrimEnd(s) ==
    IF s # <<>> /\ s[Len(s)] = " " THEN TrimEnd(SubSeq(s, 1, Len(s) - 1)) ELSE s

Trim(s) == TrimEnd(TrimStart(s))

\* decimal digits
IsDigit(c) == c \in {"0", "1", "2", "3", "4", "5", "6", "7", "8", "9"}
DigitValue(c) ==
    CASE c = "0" -> 0 [] c = "1" -> 1 [] c = "2" -> 2 [] c = "3" -> 3
      [] c = "4" -> 4 [] c = "5" -> 5 [] c = "6" -> 6 [] c = "7" -> 7
      [] c = "8" -> 8 [] c = "9" -> 9

\* the value of the leading digits of s, after the digits worth acc
RECURSIVE LeadingDigits(_, _)
LeadingDigits(s, acc) ==
    IF s = <<>> \/ ~IsDigit(Head(s)) THEN acc
    ELSE LeadingDigits(Tail(s), 10 * acc + DigitValue(Head(s)))

DigitChar(n) == CHOOSE c \in {"0", "1", "2", "3", "4", "5", "6", "7", "8", "9"} :
                    DigitValue(c) = n

\* the decimal digits of a natural number
RECURSIVE Decimal(_)
Decimal(n) ==
    IF n < 10 THEN <<DigitChar(n)>>
    ELSE Decimal(n \div 10) \o <<DigitChar(n % 10)>>

\* An object-valued property is a record of its own properties, each a
\* tagged scalar <<"num", digit or "Infinity">>, <<"str", character>>,
\* <<"bool", "true" or "false">> or <<"null", "null">>; the value null in
\* place of the object is NullRec.

\* obj[name] is an object, so that `obj.name ? ... : ...` and
\* `obj.name && ...` take the truthy side
Given(obj, name) == name \in DOMAIN obj /\ obj[name] # NullRec

\* the property names of the objects of the model, in insertion order
JsonKeys == <<"likes", "shares", "source", "flag">>

\* JSON text of a scalar, as tokens
ScalarText(v) ==
    IF v[1] = "str" THEN <<"\"", v[2], "\"">>
    ELSE IF v[1] = "num" /\ ~IsDigit(v[2]) THEN <<"null">>
    ELSE <<v[2]>>

\* JSON text of the members of obj named in keys
RECURSIVE MembersText(_, _)
MembersText(obj, keys) ==
    IF keys = <<>> THEN <<>>
    ELSE IF Head(keys) \notin DOMAIN obj THEN MembersText(obj, Tail(keys))
    ELSE LET rest == MembersText(obj, Tail(keys))
         IN  <<"\"", Head(keys), "\"", ":">> \o ScalarText(obj[Head(keys)])
                 \o (IF rest = <<>> THEN <<>> ELSE <<",">> \o rest)

\* JSON.stringify(obj)
JSONstringify(obj) == <<"{">> \o MembersText(obj, JsonKeys) \o <<"}">>

\* what JSON.parse throws
SyntaxError == [threw |-> "SyntaxError"]

\* the scalar at the head of text and the text after it
ParseScalar(text) ==
    IF text = <<>> THEN SyntaxError
    ELSE IF Head(text) = "\""
    THEN IF Len(text) >= 3 /\ text[3] = "\""
         THEN [value |-> <<"str", text[2]>>, rest |-> SubSeq(text, 4, Len(text))]
         ELSE SyntaxError
    ELSE IF IsDigit(Head(text))
    THEN [value |-> <<"num", Head(text)>>, rest |-> Tail(text)]
    ELSE IF Head(text) \in {"true", "false"}
    THEN [value |-> <<"bool", Head(text)>>, rest |-> Tail(text)]
    ELSE IF Head(text) = "null"
    THEN [value |-> <<"null", "null">>, rest |-> Tail(text)]
    ELSE SyntaxError

\* the members text holds after the ones in obj, up to the closing brace
RECURSIVE ParseMembers(_, _)
ParseMembers(text, obj) ==
    IF Len(text) < 5 \/ text[1] # "\"" \/ text[3] # "\"" \/ text[4] # ":"
    THEN SyntaxError
    ELSE LET scalar == ParseScalar(SubSeq(text, 5, Len(text)))
         IN  IF scalar = SyntaxError THEN SyntaxError
             ELSE LET more == (text[2] :> scalar.value) @@ obj
                  IN  IF scalar.rest = <<"}">> THEN more
                      ELSE IF scalar.rest # <<>> /\ Head(scalar.rest) = ","
                      THEN ParseMembers(Tail(scalar.rest), more)
                      ELSE SyntaxError

\* JSON.parse(text), for the text of an object
JSONparse(text) ==
    IF text = <<>> \/ Head(text) # "{" THEN SyntaxError
    ELSE IF Tail(text) = <<"}">> THEN EmptyObj
    ELSE ParseMembers(Tail(text), EmptyObj)

\* Date.prototype.toISOString: the text of an instant (a tick below 10)
toISOString(t) == <<"T">> \o Decimal(t)

\* new Date(text): the instant of a text that toISOString wrote
NewDate(s) == LeadingDigits(Tail(s), 0)

Users == {"U1", "U2"}
Procs == {"h1", "h2"}
PostUrls == {<<"p", "1">>, <<"p", "2">>}
SiteUrls == {<<"w", "1">>, <<"w", "2">>}
Alice == <<"A", "l">>
Bob == <<"B", "o", "b">>

-----------------------------------------------------------------------------
(* The storage layer *)

\* a range that leaves out its bounds
OpenRange(value, range) ==
    /\ "gte" \in DOMAIN range => value > range.gte
    /\ "lte" \in DOMAIN range => value < range.lte

\* Prisma { gte, lte } on a DateTime column
InRange(value, range) ==
    /\ "gte" \in DOMAIN range => value >= range.gte
    /\ "lte" \in DOMAIN range => value <= range.lte

\* Prisma where-clause on linkedin_posts
PostMatches(row, where) ==
    /\ "id" \in DOMAIN where => row.id = where.id
    /\ "idIn" \in DOMAIN where => row.id \in where.idIn
    /\ "userId" \in DOMAIN where => row.userId = where.userId
    /\ "postUrl" \in DOMAIN where => row.postUrl = where.postUrl
    /\ "author" \in DOMAIN where =>
           ContainsInsensitive(row.author, where.author.contains)
    /\ "savedAt" \in DOMAIN where => InRange(row.savedAt, where.savedAt)
    /\ "OR" \in DOMAIN where =>
           \E i \in DOMAIN where.OR :
               ContainsInsensitive(row[where.OR[i].field], where.OR[i].contains)

\* Prisma where-clause on website_summaries
SummaryMatches(row, where) ==
    /\ "userId" \in DOMAIN where => row.userId = where.userId
    /\ "url" \in DOMAIN where => row.url = where.url

PostsWhere(where) == {row \in posts : PostMatches(row, where)}

SummariesWhere(where) == {row \in summaries : SummaryMatches(row, where)}

\* prisma.linkedinPost.findFirst({ where })
linkedinPostFindFirst(where) ==
    IF PostsWhere(where) = {} THEN NullRec
    ELSE CHOOSE row \in PostsWhere(where) : TRUE

\* prisma.websiteSummary.findFirst({ where })
websiteSummaryFindFirst(where) ==
    IF SummariesWhere(where) = {} THEN NullRec
    ELSE CHOOSE row \in SummariesWhere(where) : TRUE

\* prisma.linkedinPost.count({ where })
linkedinPostCount(where) == Cardinality(PostsWhere(where))

\* the table without its unique index: no INSERT is rejected
NoPostUniqueIndex(userId, postUrl) == FALSE

\* CREATE UNIQUE INDEX linkedin_posts_userId_postUrl_key: an INSERT of
\* (userId, postUrl) is rejected (Prisma P2002) when a row holds the pair.
PostUniqueViolation(userId, postUrl) ==
    \E row \in posts : row.userId = userId /\ row.postUrl = postUrl

\* CREATE UNIQUE INDEX website_summaries_userId_url_key
SummaryUniqueViolation(userId, url) ==
    \E row \in summaries : row.userId = userId /\ row.url = url

-----------------------------------------------------------------------------
(* Outcomes of a service call *)

\* return { success: true, data }
Success(data) == [success |-> TRUE, statusCode |-> 200, data |-> data]

\* throw new AppError(message, statusCode)
AppError(message, statusCode) ==
    [success |-> FALSE, statusCode |-> statusCode, error |-> message]

Done(op, userId, args, result) ==
    [op |-> op, step |-> "done", userId |-> userId, args |-> args,
     result |-> result]

Idle == [op |-> "none", step |-> "done"]

\* Handler p is between calls
Ready(p) == pc[p].step = "done"

\* calls that have passed their existence check and will INSERT
Inserting == {q \in Procs : pc[q].step \in {"create", "generate"}}

\* cuid() can still serve every call in flight and one more
IdsLeft == nextId + Cardinality(Inserting) <= MaxId

-----------------------------------------------------------------------------
(* LinkedinService *)

\* LinkedinService.formatPost
formatPost(post) ==
    [id |-> post.id,
     title |-> post.title,
     content |-> post.content,
     author |-> post.author,
     postUrl |-> post.postUrl,
     linkedinPostId |-> post.linkedinPostId,
     platform |-> post.platform,
     engagement |-> IF Truthy(post.engagement)
                    THEN JSONparse(post.engagement) ELSE NullRec,
     metadata |-> IF Truthy(post.metadata)
                  THEN JSONparse(post.metadata) ELSE NullRec,
     savedAt |-> toISOString(post.savedAt),
     createdAt |-> toISOString(post.createdAt),
     updatedAt |-> toISOString(post.updatedAt)]

\* formatPost(post) throws: JSON.parse rejects the text of a column
FormatThrows(post) ==
    \E f \in {"engagement", "metadata"} :
        Truthy(post[f]) /\ JSONparse(post[f]) = SyntaxError

\* the row prisma.linkedinPost.create({ data }) inserts for savePost
NewPost(userId, data) ==
    [id |-> nextId,
     title |-> OrElse(Get(data, "title"), Null),
     content |-> data.content,
     author |-> data.author,
     postUrl |-> data.postUrl,
     linkedinPostId |-> OrElse(Get(data, "linkedinPostId"), Null),
     platform |-> OrElse(Get(data, "platform"), <<"l", "i">>),
     engagement |-> IF Given(data, "engagement")
                    THEN JSONstringify(data.engagement) ELSE Null,
     metadata |-> IF Given(data, "metadata")
                  THEN JSONstringify(data.metadata) ELSE Null,
     savedAt |-> now,
     userId |-> userId,
     createdAt |-> now,
     updatedAt |-> now]

\* savePost answering with the request's own fields
SavePostEcho(existingPost, data) ==
    Success(data @@ formatPost(existingPost))

\* savePost: what the call returns when the post exists
SavePostExisting(existingPost, data) == Success(formatPost(existingPost))

\* savePost: the existence check; an existing post is returned, unwritten
SavePostFind(p, userId, data) ==
    /\ Ready(p)
    /\ LET existingPost ==
               linkedinPostFindFirst([userId |-> userId, postUrl |-> data.postUrl])
       IN  IF existingPost # NullRec
           THEN pc' = [pc EXCEPT ![p] =
                          Done("savePost", userId, data,
                               SavePostExisting(existingPost, data))]
           ELSE /\ IdsLeft
                /\ pc' = [pc EXCEPT ![p] =
                             [op |-> "savePost", step |-> "create",
                              userId |-> userId, args |-> data]]
    /\ UNCHANGED <<posts, summaries, nextId, now>>

\* savePost: the INSERT and its outcome
SavePostCreate(p) ==
    /\ pc[p].op = "savePost"
    /\ pc[p].step = "create"
    /\ LET userId == pc[p].userId
           data == pc[p].args
           linkedinPost == NewPost(userId, data)
       IN  IF PostUniqueViolation(userId, data.postUrl)
           THEN /\ pc' = [pc EXCEPT ![p] =
                             Done("savePost", userId, data,
                                  AppError("Failed to save LinkedIn post", 500))]
                /\ UNCHANGED <<posts, nextId>>
           ELSE /\ posts' = posts \cup {linkedinPost}
                /\ nextId' = nextId + 1
                /\ pc' = [pc EXCEPT ![p] =
                             Done("savePost", userId, data,
                                  Success(formatPost(linkedinPost)))]
    /\ UNCHANGED <<summaries, now>>

\* a where clause that matches every row
EveryPost(userId, params) == EmptyObj

\* a search that looks at the title alone
TitleOnly == <<"title">>

\* getPosts: the columns search looks at
SearchFields == <<"title", "content", "author">>

\* getPosts: the where clause
GetPostsWhere(userId, params) ==
    [userId |-> userId]
    @@ SpreadIf(Truthy(Get(params, "author")),
                [author |-> [contains |-> Get(params, "author")]])
    @@ SpreadIf(Truthy(Get(params, "startDate")) /\ Truthy(Get(params, "endDate")),
                [savedAt |-> [gte |-> NewDate(Get(params, "startDate")),
                              lte |-> NewDate(Get(params, "endDate"))]])
    @@ SpreadIf(Truthy(Get(params, "search")),
                [OR |-> [i \in DOMAIN SearchFields |->
                            [field |-> SearchFields[i],
                             contains |-> Get(params, "search")]]])

\* Math.ceil(a / b) for a >= 0, b > 0
Ceil(a, b) == (a + b - 1) \div b

Min(a, b) == IF a <= b THEN a ELSE b
Max(a, b) == IF a >= b THEN a ELSE b

\* code-point order of the characters of the model
Alphabet == <<" ", "1", "2", "A", "B", "T", "a", "b", "l", "o", "p", "s", "w">>
CharRank(c) == CHOOSE i \in DOMAIN Alphabet : Alphabet[i] = c

\* s < t for text
RECURSIVE TextLess(_, _)
TextLess(s, t) ==
    IF t = <<>> THEN FALSE
    ELSE IF s = <<>> THEN TRUE
    ELSE IF Head(s) = Head(t) THEN TextLess(Tail(s), Tail(t))
    ELSE CharRank(Head(s)) < CharRank(Head(t))

\* the scalar columns of linkedin_posts, which orderBy accepts (the Json
\* columns engagement and metadata cannot order a query)
PostColumns ==
    {"id", "title", "content", "author", "postUrl", "linkedinPostId",
     "platform", "savedAt", "userId", "createdAt", "updatedAt"}

\* a sorts strictly before b under ORDER BY sortBy ASC (NULLS LAST)
KeyBefore(a, b, sortBy) ==
    IF sortBy \in {"savedAt", "createdAt", "updatedAt", "id"}
    THEN a[sortBy] < b[sortBy]
    ELSE IF sortBy = "userId" THEN FALSE
    ELSE IF a[sortBy] = Null THEN FALSE
    ELSE IF b[sortBy] = Null THEN TRUE
    ELSE TextLess(a[sortBy], b[sortBy])

\* the orders in which ORDER BY sortBy sortOrder may deliver rows: rows
\* with equal keys come in any order
RECURSIVE Ordered(_, _, _)
Ordered(rows, sortBy, sortOrder) ==
    IF rows = {} THEN {<<>>}
    ELSE LET firsts ==
                 {r \in rows :
                     \A o \in rows :
                         IF sortOrder = "asc" THEN ~KeyBefore(o, r, sortBy)
                         ELSE ~KeyBefore(r, o, sortBy)}
         IN  UNION {{<<r>> \o rest :
                        rest \in Ordered(rows \ {r}, sortBy, sortOrder)} :
                    r \in firsts}

\* LIMIT take without the OFFSET
TakeOnly(seq, skip, take) == SubSeq(seq, 1, Min(Len(seq), take))

\* an OFFSET without its LIMIT
SkipOnly(seq, skip, take) == SubSeq(seq, skip + 1, Len(seq))

\* OFFSET skip LIMIT take
SkipTake(seq, skip, take) ==
    SubSeq(seq, skip + 1, Min(Len(seq), skip + take))

\* a response whose last page still announces a next one
NextOnLastPage(params, total, found) ==
    LET totalPages == Ceil(total, params.limit)
    IN  [data |-> [i \in DOMAIN found |-> formatPost(found[i])],
         pagination |-> [page |-> params.page,
                         limit |-> params.limit,
                         total |-> total,
                         totalPages |-> totalPages,
                         hasNext |-> params.page <= totalPages,
                         hasPrev |-> params.page > 1]]

\* getPosts: the response built from the two query results
GetPostsResponse(params, total, found) ==
    LET totalPages == Ceil(total, params.limit)
    IN  [data |-> [i \in DOMAIN found |-> formatPost(found[i])],
         pagination |-> [page |-> params.page,
                         limit |-> params.limit,
                         total |-> total,
                         totalPages |-> totalPages,
                         hasNext |-> params.page < totalPages,
                         hasPrev |-> params.page > 1]]

\* getPosts: prisma.linkedinPost.count({ where })
GetPostsCount(p, userId, params) ==
    /\ Ready(p)
    /\ pc' = [pc EXCEPT ![p] =
                 [op |-> "getPosts", step |-> "findMany", userId |-> userId,
                  args |-> params,
                  total |-> linkedinPostCount(GetPostsWhere(userId, params))]]
    /\ UNCHANGED <<posts, summaries, nextId, now>>

\* getPosts: prisma.linkedinPost.findMany(...) and the response
GetPostsFindMany(p) ==
    /\ pc[p].op = "getPosts"
    /\ pc[p].step = "findMany"
    /\ LET userId == pc[p].userId
           params == pc[p].args
       IN  IF params.sortBy \notin PostColumns
              \/ params.sortOrder \notin {"asc", "desc"}
           THEN \* the query is refused; the catch rethrows
                pc' = [pc EXCEPT ![p] =
                          Done("getPosts", userId, params,
                               AppError("Failed to get LinkedIn posts", 500))]
           ELSE \E seq \in Ordered(PostsWhere(GetPostsWhere(userId, params)),
                                   params.sortBy, params.sortOrder) :
                    LET found == SkipTake(seq, (params.page - 1) * params.limit,
                                          params.limit)
                    IN  pc' = [pc EXCEPT ![p] =
                                  Done("getPosts", userId, params,
                                       IF \E i \in DOMAIN found : FormatThrows(found[i])
                                       THEN AppError("Failed to get LinkedIn posts", 500)
                                       ELSE Success(GetPostsResponse(
                                                params, pc[p].total, found)))]
    /\ UNCHANGED <<posts, summaries, nextId, now>>

\* getPostById: the where clause
GetPostByIdWhere(userId, postId) == [id |-> postId, userId |-> userId]

\* a getPostById that removes the row it returns
GetPostByIdConsuming(p, userId, postId) ==
    /\ Ready(p)
    /\ LET post == linkedinPostFindFirst([id |-> postId, userId |-> userId])
       IN  /\ pc' = [pc EXCEPT ![p] =
                         Done("getPostById", userId, postId,
                              IF post = NullRec
                              THEN AppError("LinkedIn post not found", 404)
                              ELSE Success(formatPost(post)))]
           /\ posts' = posts \ {post}
    /\ UNCHANGED <<summaries, nextId, now>>

\* getPostById
GetPostById(p, userId, postId) ==
    /\ Ready(p)
    /\ LET post == linkedinPostFindFirst(GetPostByIdWhere(userId, postId))
       IN  pc' = [pc EXCEPT ![p] =
                     Done("getPostById", userId, postId,
                          IF post = NullRec
                          THEN AppError("LinkedIn post not found", 404)
                          ELSE IF FormatThrows(post)
                          THEN AppError("Failed to get LinkedIn post", 500)
                          ELSE Success(formatPost(post)))]
    /\ UNCHANGED <<posts, summaries, nextId, now>>

\* a data object that carries every text column, given or not
WholeData(updates) ==
    [f \in {"title", "content", "author"} |->
        IF f \in DOMAIN updates THEN updates[f] ELSE Null]

\* a data object that is the request's updates as sent
UpdatesAsSent(updates) == updates

\* updatePost: the data of prisma.linkedinPost.update
UpdateData(updates) ==
    SpreadIf(Get(updates, "title") # Undefined, [title |-> Get(updates, "title")])
    @@ SpreadIf(Truthy(Get(updates, "content")), [content |-> Get(updates, "content")])
    @@ SpreadIf(Truthy(Get(updates, "author")), [author |-> Get(updates, "author")])
    @@ SpreadIf(Given(updates, "engagement"),
                [engagement |-> JSONstringify(Get(updates, "engagement"))])
    @@ SpreadIf(Given(updates, "metadata"),
                [metadata |-> JSONstringify(Get(updates, "metadata"))])

\* the row after UPDATE ... SET data (updatedAt is @updatedAt)
ApplyUpdate(row, data) ==
    [f \in DOMAIN row |->
        IF f \in DOMAIN data THEN data[f]
        ELSE IF f = "updatedAt" THEN now
        ELSE row[f]]

\* an ownership check that looks at the id alone
AnyOwnerWhere(userId, postId) == [id |-> postId]

\* updatePost: the where clause of the ownership check
UpdatePostWhere(userId, postId) == [id |-> postId, userId |-> userId]

\* updatePost: the ownership check
UpdatePostFind(p, userId, postId, updates) ==
    /\ Ready(p)
    /\ LET existingPost == linkedinPostFindFirst(UpdatePostWhere(userId, postId))
       IN  pc' = [pc EXCEPT ![p] =
                     IF existingPost = NullRec
                     THEN Done("updatePost", userId, <<postId, updates>>,
                               AppError("LinkedIn post not found", 404))
                     ELSE [op |-> "updatePost", step |-> "update",
                           userId |-> userId, args |-> <<postId, updates>>]]
    /\ UNCHANGED <<posts, summaries, nextId, now>>

\* updatePost: prisma.linkedinPost.update({ where: { id }, data })
UpdatePostWrite(p) ==
    /\ pc[p].op = "updatePost"
    /\ pc[p].step = "update"
    /\ LET userId == pc[p].userId
           postId == pc[p].args[1]
           updates == pc[p].args[2]
           target == linkedinPostFindFirst([id |-> postId])
           updatedPost == ApplyUpdate(target, UpdateData(updates))
       IN  IF target = NullRec
           THEN /\ pc' = [pc EXCEPT ![p] =
                             Done("updatePost", userId, pc[p].args,
                                  AppError("Failed to update LinkedIn post", 500))]
                /\ UNCHANGED posts
           ELSE /\ posts' = (posts \ {target}) \cup {updatedPost}
                /\ pc' = [pc EXCEPT ![p] =
                             Done("updatePost", userId, pc[p].args,
                                  Success(formatPost(updatedPost)))]
    /\ UNCHANGED <<summaries, nextId, now>>

\* deletePost: the where clause of the ownership check
DeletePostWhere(userId, postId) == [id |-> postId, userId |-> userId]

\* deletePost: the ownership check
DeletePostFind(p, userId, postId) ==
    /\ Ready(p)
    /\ LET post == linkedinPostFindFirst(DeletePostWhere(userId, postId))
       IN  pc' = [pc EXCEPT ![p] =
                     IF post = NullRec
                     THEN Done("deletePost", userId, postId,
                               AppError("LinkedIn post not found", 404))
                     ELSE [op |-> "deletePost", step |-> "delete",
                           userId |-> userId, args |-> postId]]
    /\ UNCHANGED <<posts, summaries, nextId, now>>

\* deletePost: prisma.linkedinPost.delete({ where: { id } })
DeletePostWrite(p) ==
    /\ pc[p].op = "deletePost"
    /\ pc[p].step = "delete"
    /\ LET userId == pc[p].userId
           postId == pc[p].args
           target == linkedinPostFindFirst([id |-> postId])
       IN  IF target = NullRec
           THEN /\ pc' = [pc EXCEPT ![p] =
                             Done("deletePost", userId, postId,
                                  AppError("Failed to delete LinkedIn post", 500))]
                /\ UNCHANGED posts
           ELSE /\ posts' = posts \ {target}
                /\ pc' = [pc EXCEPT ![p] =
                             Done("deletePost", userId, postId,
                                  [success |-> TRUE, statusCode |-> 200])]
    /\ UNCHANGED <<summaries, nextId, now>>

\* a deleteMany by id alone
AnyOwnerIn(userId, postIds) == [idIn |-> postIds]

\* bulkDeletePosts: the where clause of deleteMany
BulkDeleteWhere(userId, postIds) == [idIn |-> postIds, userId |-> userId]

\* a count that reports nothing deleted
NoneCounted(deleted) == 0

\* the count deleteMany returns
DeleteManyCount(deleted) == Cardinality(deleted)

\* bulkDeletePosts
BulkDeletePosts(p, userId, postIds) ==
    /\ Ready(p)
    /\ IF postIds = {}
       THEN /\ pc' = [pc EXCEPT ![p] =
                         Done("bulkDeletePosts", userId, postIds,
                              Success([deletedCount |-> 0]))]
            /\ UNCHANGED posts
       ELSE LET deleted == PostsWhere(BulkDeleteWhere(userId, postIds))
            IN  /\ posts' = posts \ deleted
                /\ pc' = [pc EXCEPT ![p] =
                             Done("bulkDeletePosts", userId, postIds,
                                  Success([deletedCount |-> DeleteManyCount(deleted)]))]
    /\ UNCHANGED <<summaries, nextId, now>>

\* getPostStats: new Date(now.getFullYear(), now.getMonth(), 1), with a
\* month of MonthTicks ticks
MonthTicks == 2
startOfMonth(t) == t - (t % MonthTicks)

\* getPostStats: new Date(now.getTime() - 7 * 24 * 60 * 60 * 1000), with a
\* week of WeekTicks ticks
WeekTicks == 1
startOfWeek(t) == t - WeekTicks

TopAuthorsTake == 10
RecentPostsTake == 5

StatsQueries ==
    {"totalPosts", "postsThisMonth", "postsThisWeek", "topAuthors", "recentPosts"}

\* a groupBy that counts the rows of every user
AllUsersGroups(where) ==
    {[author |-> a,
      count |-> Cardinality({row \in posts : row.author = a})] :
        a \in {row.author : row \in PostsWhere(where)}}

\* groupBy({ by: ['author'], where, _count }): one group per author
AuthorGroups(where) ==
    {[author |-> a,
      count |-> Cardinality({row \in PostsWhere(where) : row.author = a})] :
        a \in {row.author : row \in PostsWhere(where)}}

\* ... orderBy: { _count: { author: 'desc' } }: groups with equal counts
\* come in any order
RECURSIVE GroupsOrdered(_)
GroupsOrdered(groups) ==
    IF groups = {} THEN {<<>>}
    ELSE LET firsts == {g \in groups : \A o \in groups : g.count >= o.count}
         IN  UNION {{<<g>> \o rest : rest \in GroupsOrdered(groups \ {g})} :
                    g \in firsts}

\* sub-queries whose two date windows count the rows of every user
UnscopedWindows(q, userId, since) ==
    CASE q = "totalPosts" -> {linkedinPostCount([userId |-> userId])}
      [] q = "postsThisMonth" ->
            {linkedinPostCount([savedAt |-> [gte |-> since.month]])}
      [] q = "postsThisWeek" ->
            {linkedinPostCount([savedAt |-> [gte |-> since.week]])}
      [] q = "topAuthors" ->
            {SkipTake(seq, 0, TopAuthorsTake) :
                seq \in GroupsOrdered(AuthorGroups([userId |-> userId]))}
      [] q = "recentPosts" ->
            {SkipTake(seq, 0, RecentPostsTake) :
                seq \in Ordered(PostsWhere([userId |-> userId]), "savedAt", "desc")}

\* getPostStats: the results one sub-query of the Promise.all may deliver
StatsQueryResults(q, userId, since) ==
    CASE q = "totalPosts" -> {linkedinPostCount([userId |-> userId])}
      [] q = "postsThisMonth" ->
            {linkedinPostCount([userId |-> userId,
                                savedAt |-> [gte |-> since.month]])}
      [] q = "postsThisWeek" ->
            {linkedinPostCount([userId |-> userId,
                                savedAt |-> [gte |-> since.week]])}
      [] q = "topAuthors" ->
            {SkipTake(seq, 0, TopAuthorsTake) :
                seq \in GroupsOrdered(AuthorGroups([userId |-> userId]))}
      [] q = "recentPosts" ->
            {SkipTake(seq, 0, RecentPostsTake) :
                seq \in Ordered(PostsWhere([userId |-> userId]), "savedAt", "desc")}

\* getPostStats: the stats object
StatsResponse(r) ==
    [totalPosts |-> r.totalPosts,
     postsThisMonth |-> r.postsThisMonth,
     postsThisWeek |-> r.postsThisWeek,
     topAuthors |-> r.topAuthors,
     recentActivity |->
        [i \in DOMAIN r.recentPosts |->
            [id |-> r.recentPosts[i].id,
             title |-> OrElse(r.recentPosts[i].title,
                              <<"P", "o", "s", "t", " ", "b", "y", " ">>
                                  \o r.recentPosts[i].author),
             author |-> r.recentPosts[i].author,
             savedAt |-> toISOString(r.recentPosts[i].savedAt)]]]

\* getPostStats: the clock is read and the five queries are issued
GetPostStatsBegin(p, userId) ==
    /\ Ready(p)
    /\ pc' = [pc EXCEPT ![p] =
                 [op |-> "getPostStats", step |-> "queries", userId |-> userId,
                  args |-> [month |-> startOfMonth(now), week |-> startOfWeek(now)],
                  pending |-> StatsQueries, results |-> EmptyObj]]
    /\ UNCHANGED <<posts, summaries, nextId, now>>

\* getPostStats: the storage layer answers one of the pending queries; the
\* call returns with the last answer
GetPostStatsQuery(p) ==
    /\ pc[p].op = "getPostStats"
    /\ pc[p].step = "queries"
    /\ \E q \in pc[p].pending :
       \E v \in StatsQueryResults(q, pc[p].userId, pc[p].args) :
           LET results == pc[p].results @@ (q :> v)
           IN  pc' = [pc EXCEPT ![p] =
                         IF pc[p].pending = {q}
                         THEN Done("getPostStats", pc[p].userId, pc[p].args,
                                   Success(StatsResponse(results)))
                         ELSE [pc[p] EXCEPT !.pending = @ \ {q},
                                            !.results = results]]
    /\ UNCHANGED <<posts, summaries, nextId, now>>

-----------------------------------------------------------------------------
(* LinkedinController *)

\* the value of parseInt: NaN, or an integer
NaN == [nan |-> TRUE, value |-> 0]
Number(n) == [nan |-> FALSE, value |-> n]

\* parseInt(s): leading white space, a sign, digits; what follows the
\* digits is ignored; NaN without a digit
parseInt(s) ==
    LET t == TrimStart(s)
        negative == t # <<>> /\ Head(t) = "-"
        digits == IF t # <<>> /\ Head(t) \in {"-", "+"} THEN Tail(t) ELSE t
    IN  IF digits = <<>> \/ ~IsDigit(Head(digits)) THEN NaN
        ELSE Number(IF negative THEN 0 - LeadingDigits(digits, 0)
                    ELSE LeadingDigits(digits, 0))

\* n || d for a number n: NaN and 0 are falsy
OrNumber(n, d) == IF n.nan \/ n.value = 0 THEN d ELSE n.value

\* req.query.page ? Math.max(1, parseInt(req.query.page) || 1) : 1
ParsePage(query) ==
    IF Truthy(Get(query, "page"))
    THEN Max(1, OrNumber(parseInt(query.page), 1))
    ELSE 1

\* req.query.limit
\*   ? Math.min(100, Math.max(1, parseInt(req.query.limit) || 20)) : 20
ParseLimit(query) ==
    IF Truthy(Get(query, "limit"))
    THEN Min(100, Max(1, OrNumber(parseInt(query.limit), 20)))
    ELSE 20

\* LinkedinController.getPosts: queryParams
QueryParams(query) ==
    [page |-> ParsePage(query),
     limit |-> ParseLimit(query),
     search |-> IF Truthy(Get(query, "search")) THEN query.search ELSE Undefined,
     author |-> IF Truthy(Get(query, "author")) THEN query.author ELSE Undefined,
     startDate |-> IF Truthy(Get(query, "startDate")) THEN query.startDate
                   ELSE Undefined,
     endDate |-> IF Truthy(Get(query, "endDate")) THEN query.endDate
                 ELSE Undefined,
     sortBy |-> IF "sortBy" \in DOMAIN query THEN query.sortBy ELSE "savedAt",
     sortOrder |-> IF "sortOrder" \in DOMAIN query THEN query.sortOrder
                   ELSE "desc"]

\* LinkedinController.getPosts, up to the first await of the service
GetPostsRequest(p, userId, query) ==
    GetPostsCount(p, userId, QueryParams(query))

-----------------------------------------------------------------------------
(* WebsiteSummaryService *)

\* WebsiteSummaryService.extractWebsiteName: a name computed from the url
\* alone (left uninterpreted)
extractWebsiteName(url) == <<"n", ":">> \o url

\* WebsiteSummaryService.getFaviconUrl: computed from the url alone
getFaviconUrl(url) == url \o <<"/", "f">>

\* WebsiteSummaryService.formatSummary
formatSummary(summary) ==
    [id |-> summary.id,
     title |-> summary.title,
     content |-> summary.content,
     summary |-> summary.summary,
     url |-> summary.url,
     websiteName |-> summary.websiteName,
     faviconUrl |-> summary.faviconUrl,
     createdAt |-> toISOString(summary.createdAt),
     updatedAt |-> toISOString(summary.updatedAt)]

\* a response that calls every record new
AlwaysNew(summary, isNew) == formatSummary(summary) @@ [isNew |-> TRUE]

\* { ...this.formatSummary(summary), isNew }
SummaryResponse(summary, isNew) == formatSummary(summary) @@ [isNew |-> isNew]

\* a generateSummary that answers with a placeholder when the client fails
PlaceholderSummary(completion) ==
    IF completion.throws \/ ~completion.success \/ ~Truthy(completion.data)
    THEN Success(<<"?">>)
    ELSE Success(Trim(completion.data))

\* WebsiteSummaryService.generateSummary, given what
\* openaiService.generateCompletion did: "throws", or the ServiceResponse
generateSummary(completion) ==
    IF completion.throws \/ ~completion.success \/ ~Truthy(completion.data)
    THEN AppError("Failed to generate article summary", 500)
    ELSE Success(Trim(completion.data))

\* the row prisma.websiteSummary.create({ data }) inserts
NewSummary(userId, data, summaryText) ==
    [id |-> nextId,
     title |-> data.title,
     content |-> data.content,
     summary |-> summaryText,
     url |-> data.url,
     websiteName |-> extractWebsiteName(data.url),
     faviconUrl |-> getFaviconUrl(data.url),
     userId |-> userId,
     createdAt |-> now,
     updatedAt |-> now]

\* createOrGetSummary: the existence check
CreateSummaryFind(p, userId, data) ==
    /\ Ready(p)
    /\ LET existingSummary ==
               websiteSummaryFindFirst([userId |-> userId, url |-> data.url])
       IN  IF existingSummary # NullRec
           THEN pc' = [pc EXCEPT ![p] =
                          Done("createOrGetSummary", userId, data,
                               Success(SummaryResponse(existingSummary, FALSE)))
                          @@ [calls |-> 0]]
           ELSE /\ IdsLeft
                /\ pc' = [pc EXCEPT ![p] =
                             [op |-> "createOrGetSummary", step |-> "generate",
                              userId |-> userId, args |-> data, calls |-> 0]]
    /\ UNCHANGED <<posts, summaries, nextId, now>>

\* createOrGetSummary: the completion client answers
CreateSummaryGenerate(p, completion) ==
    /\ pc[p].op = "createOrGetSummary"
    /\ pc[p].step = "generate"
    /\ LET summaryResult == generateSummary(completion)
           calls == pc[p].calls + 1
       IN  pc' = [pc EXCEPT ![p] =
                     IF ~summaryResult.success
                     THEN Done("createOrGetSummary", pc[p].userId, pc[p].args,
                               summaryResult) @@ [calls |-> calls]
                     ELSE IF ~Truthy(summaryResult.data)
                     THEN Done("createOrGetSummary", pc[p].userId, pc[p].args,
                               AppError("Failed to generate summary", 500))
                          @@ [calls |-> calls]
                     ELSE [pc[p] EXCEPT !.step = "create", !.calls = calls]
                          @@ [summary |-> summaryResult.data]]
    /\ UNCHANGED <<posts, summaries, nextId, now>>

\* createOrGetSummary: the INSERT and its outcome
CreateSummaryInsert(p) ==
    /\ pc[p].op = "createOrGetSummary"
    /\ pc[p].step = "create"
    /\ LET userId == pc[p].userId
           data == pc[p].args
           websiteSummary == NewSummary(userId, data, pc[p].summary)
       IN  IF SummaryUniqueViolation(userId, data.url)
           THEN /\ pc' = [pc EXCEPT ![p] =
                             Done("createOrGetSummary", userId, data,
                                  AppError("Failed to create website summary", 500))
                             @@ [calls |-> pc[p].calls]]
                /\ UNCHANGED <<summaries, nextId>>
           ELSE /\ summaries' = summaries \cup {websiteSummary}
                /\ nextId' = nextId + 1
                /\ pc' = [pc EXCEPT ![p] =
                             Done("createOrGetSummary", userId, data,
                                  Success(SummaryResponse(websiteSummary, TRUE)))
                             @@ [calls |-> pc[p].calls]]
    /\ UNCHANGED <<posts, now>>

\* getSummaryByUrl
GetSummaryByUrl(p, userId, url) ==
    /\ Ready(p)
    /\ LET summary == websiteSummaryFindFirst([userId |-> userId, url |-> url])
       IN  pc' = [pc EXCEPT ![p] =
                     Done("getSummaryByUrl", userId, url,
                          IF summary = NullRec
                          THEN [success |-> TRUE, statusCode |-> 200,
                                data |-> NullRec]
                          ELSE Success(SummaryResponse(summary, FALSE)))]
    /\ UNCHANGED <<posts, summaries, nextId, now>>

-----------------------------------------------------------------------------
(* Routers *)

\* req.user is absent
NoUser == "anonymous"

\* The layers of a router in the order they are mounted: router.use(fn) is
\* a layer for every route ("*"), router.get/post/put/delete(path, ...fns) a
\* layer for its route, whose last function is the controller method.
Use(fn) == [route |-> "*", handlers |-> <<fn>>]
Route(route, handlers) == [route |-> route, handlers |-> handlers]

LinkedinRouter ==
    << Route("GET /test", <<"test">>),
       Use("log"),
       Use("authenticate"),
       Route("POST /posts", <<"generalRateLimit", "validate", "savePost">>),
       Route("GET /posts", <<"generalRateLimit", "getPosts">>),
       Route("GET /posts/stats", <<"generalRateLimit", "getStats">>),
       Route("POST /posts/bulk-delete", <<"generalRateLimit", "bulkDeletePosts">>),
       Route("GET /posts/:id", <<"generalRateLimit", "getPostById">>),
       Route("PUT /posts/:id", <<"generalRateLimit", "validate", "updatePost">>),
       Route("DELETE /posts/:id", <<"generalRateLimit", "deletePost">>) >>

WebsiteRouter ==
    << Use("authenticate"),
       Route("GET /health", <<"healthCheck">>),
       Route("POST /", <<"validate", "createSummary">>),
       Route("GET /", <<"validate", "getSummaryByUrl">>) >>

SummaryRouter ==
    << Use("authenticate"),
       Route("POST /generate", <<"requireCredits", "validate", "generate">>),
       Route("POST /save", <<"validate", "save">>),
       Route("GET /", <<"getSummaries">>),
       Route("GET /stats", <<"getSummaryStats">>),
       Route("GET /:id", <<"getSummaryById">>),
       Route("PUT /:id", <<"validate", "updateSummary">>),
       Route("DELETE /:id", <<"deleteSummary">>),
       Route("GET /video/:videoId", <<"getSummaryByVideoId">>) >>

Routers == [linkedin |-> LinkedinRouter, website |-> WebsiteRouter,
            summary |-> SummaryRouter]

\* functions that answer without reading req.user
OpenHandlers == {"test", "healthCheck"}

\* functions that call next() or end the request themselves
Middlewares == {"generalRateLimit", "validate", "requireCredits"}

\* a controller method: 401 when req.user is absent, else its service is
\* called (status 0: the response awaits the service)
Controller(method, reqUser) ==
    IF method \in OpenHandlers THEN [status |-> 200, service |-> "none"]
    ELSE IF reqUser = NoUser THEN [status |-> 401, service |-> "none"]
    ELSE [status |-> 0, service |-> method]

\* the functions of a route run in turn; a middleware that does not pass
\* ends the request
RECURSIVE RunRoute(_, _, _, _)
RunRoute(handlers, reqUser, passes, ran) ==
    LET fn == Head(handlers)
    IN  IF fn \in Middlewares
        THEN IF passes THEN RunRoute(Tail(handlers), reqUser, passes, Append(ran, fn))
             ELSE [ran |-> Append(ran, fn), status |-> 400, service |-> "none",
                   userId |-> reqUser]
        ELSE Controller(fn, reqUser) @@ [ran |-> Append(ran, fn), userId |-> reqUser]

\* the authenticate middleware: with valid credentials it sets req.user and
\* calls next(), without them it answers 401
authenticate(credentials) ==
    IF credentials = NoUser THEN [next |-> FALSE, status |-> 401]
    ELSE [next |-> TRUE, user |-> credentials]

\* a request travels the layers of its router
RECURSIVE Travel(_, _, _, _, _, _)
Travel(layers, route, credentials, passes, reqUser, ran) ==
    IF layers = <<>>
    THEN [ran |-> ran, status |-> 404, service |-> "none", userId |-> reqUser]
    ELSE LET layer == Head(layers)
         IN  IF layer.route = "*" /\ layer.handlers = <<"authenticate">>
             THEN IF authenticate(credentials).next
                  THEN Travel(Tail(layers), route, credentials, passes,
                              authenticate(credentials).user,
                              Append(ran, "authenticate"))
                  ELSE [ran |-> Append(ran, "authenticate"),
                        status |-> authenticate(credentials).status,
                        service |-> "none", userId |-> reqUser]
             ELSE IF layer.route = "*"
             THEN Travel(Tail(layers), route, credentials, passes, reqUser,
                         ran \o layer.handlers)
             ELSE IF layer.route = route
             THEN RunRoute(layer.handlers, reqUser, passes, ran)
             ELSE Travel(Tail(layers), route, credentials, passes, reqUser, ran)

\* a request arrives at a router
HttpRequest(p, router, route, credentials, passes) ==
    /\ pc[p] = Idle
    /\ pc' = [pc EXCEPT ![p] =
                 [op |-> "http", step |-> "done", router |-> router,
                  route |-> route, credentials |-> credentials]
                 @@ Travel(Routers[router], route, credentials, passes,
                           NoUser, <<>>)]
    /\ UNCHANGED <<posts, summaries, nextId, now>>

\* a controller method is called with a request that did not travel a router
ControllerCall(p, method, reqUser) ==
    /\ pc[p] = Idle
    /\ pc' = [pc EXCEPT ![p] =
                 [op |-> "http", step |-> "done", router |-> "none",
                  route |-> method, credentials |-> reqUser]
                 @@ RunRoute(<<method>>, reqUser, TRUE, <<>>)]
    /\ UNCHANGED <<posts, summaries, nextId, now>>

\* the controller method that has run calls this service operation
Calls(p, service) == pc[p].op = "http" /\ pc[p].service = service

-----------------------------------------------------------------------------
(* WebsiteSummaryController *)

\* the content-length limits of createSummary
MinContentLength == 100
MaxContentLength == 100000

\* Long text is written with runs: the element "a x n" of a text stands for
\* n consecutive characters, every other element for one character.
ShortRun == "a x 99"
LongRun == "a x 100000"
RunLength(c) ==
    CASE c = ShortRun -> 99
      [] c = LongRun -> 100000
      [] OTHER -> 1

\* text.length
RECURSIVE Length(_)
Length(text) ==
    IF text = <<>> THEN 0 ELSE RunLength(Head(text)) + Length(Tail(text))

\* characters a URL scheme is made of
SchemeStart == {"a", "b", "h", "l", "o", "p", "s", "t", "w", "A", "B", "T"}
SchemeChars == SchemeStart \cup {"0", "1", "2", "+", "-", "."}

\* schemes whose URL needs a host
SpecialSchemes == {<<"h", "t", "t", "p">>, <<"h", "t", "t", "p", "s">>,
                   <<"w", "s">>, <<"w", "s", "s">>}

\* s without its leading slashes
RECURSIVE AfterSlashes(_)
AfterSlashes(s) ==
    IF s # <<>> /\ Head(s) \in {"/", "\\"} THEN AfterSlashes(Tail(s)) ELSE s

\* new URL(url) does not throw: the text begins with a scheme and a colon,
\* and a host follows when the scheme needs one
URLParses(url) ==
    \E i \in DOMAIN url :
        /\ i > 1
        /\ url[i] = ":"
        /\ url[1] \in SchemeStart
        /\ \A j \in 2..(i - 1) : url[j] \in SchemeChars
        /\ ToLower(SubSeq(url, 1, i - 1)) \in SpecialSchemes
               => AfterSlashes(SubSeq(url, i + 1, Len(url))) # <<>>

\* createWebsiteSummarySchema.safeParse({ body }).success: the checks run
\* on the text as sent, trim() only shapes req.validatedData
createWebsiteSummarySchema(body) ==
    /\ body.title # Undefined
    /\ Length(body.title) >= 1 /\ Length(body.title) <= 500
    /\ body.content # Undefined
    /\ Length(body.content) >= 100 /\ Length(body.content) <= 100000
    /\ body.url # Undefined /\ URLParses(body.url) /\ Length(body.url) <= 2000

\* the status createSummary answers a rejected request with, 0 when the
\* request goes on to the service
CreateSummaryCheck(reqUser, summaryData) ==
    IF reqUser = NoUser THEN 401
    ELSE IF ~Truthy(summaryData.title) \/ ~Truthy(summaryData.content)
            \/ ~Truthy(summaryData.url) THEN 400
    ELSE IF ~URLParses(summaryData.url) THEN 400
    ELSE IF Length(summaryData.content) > MaxContentLength THEN 400
    ELSE IF Length(summaryData.content) < MinContentLength THEN 400
    ELSE 0

\* a createSummary that answers 201 whatever the service found
AlwaysCreated(result) == 201

\* res.status(result.data?.isNew ? 201 : 200)
CreateSummaryStatus(result) == IF result.data.isNew THEN 201 ELSE 200

\* a request the endpoint has answered without calling the service
Answered(method, reqUser, body, status) ==
    [op |-> method, step |-> "done", userId |-> reqUser, args |-> body,
     status |-> status, service |-> "none"]

\* WebsiteSummaryController.createSummary, up to the first await of the
\* service
CreateSummaryController(p, reqUser, body) ==
    /\ pc[p] = Idle
    /\ IF CreateSummaryCheck(reqUser, body) # 0
       THEN /\ pc' = [pc EXCEPT ![p] =
                         Answered("createSummary", reqUser, body,
                                  CreateSummaryCheck(reqUser, body))]
            /\ UNCHANGED <<posts, summaries, nextId, now>>
       ELSE CreateSummaryFind(p, reqUser, body)

\* POST / of the website router behind authenticate:
\* validate(createWebsiteSummarySchema), then createSummary
CreateSummaryEndpoint(p, reqUser, body) ==
    /\ pc[p] = Idle
    /\ reqUser # NoUser
    /\ IF ~createWebsiteSummarySchema(body)
       THEN /\ pc' = [pc EXCEPT ![p] =
                         Answered("createSummary", reqUser, body, 400)]
            /\ UNCHANGED <<posts, summaries, nextId, now>>
       ELSE CreateSummaryController(p, reqUser, body)

\* createSummary after the service returned: the status by isNew; a thrown
\* AppError goes to next(error) with its statusCode
CreateSummaryAnswer(p) ==
    /\ pc[p].op = "createOrGetSummary"
    /\ pc[p].step = "done"
    /\ pc' = [pc EXCEPT ![p] =
                 [op |-> "createSummary", step |-> "done",
                  userId |-> pc[p].userId, args |-> pc[p].args,
                  status |-> IF pc[p].result.success
                             THEN CreateSummaryStatus(pc[p].result)
                             ELSE pc[p].result.statusCode,
                  service |-> "createOrGetSummary",
                  result |-> pc[p].result]]
    /\ UNCHANGED <<posts, summaries, nextId, now>>

-----------------------------------------------------------------------------
(* Inputs *)

PostIds == 1..MaxId

\* an optional property: absent, or one of the values
Optional(name, values) == {EmptyObj} \cup {(name :> v) : v \in values}

\* SaveLinkedinPostDto
Saves ==
    {[title |-> <<"T">>, content |-> <<"a", "b">>, author |-> Alice,
      postUrl |-> url, engagement |-> [likes |-> <<"num", "1">>],
      metadata |-> [source |-> <<"str", "w">>]] : url \in PostUrls}
    \cup
    {[content |-> <<"b">>, author |-> Bob, postUrl |-> url] : url \in PostUrls}

\* UpdateLinkedinPostDto
Updates == {[author |-> Bob], [title |-> <<>>, content |-> <<"a">>]}

\* UpdateLinkedinPostDto with one property, of every kind of value, and with
\* two properties
UpdateInputs ==
    {[title |-> <<"X">>], [title |-> <<>>], [title |-> Null],
     [content |-> <<"c">>], [content |-> <<>>], [content |-> Null],
     [author |-> Bob], [author |-> <<>>],
     [engagement |-> [likes |-> <<"num", "2">>]], [engagement |-> NullRec],
     [metadata |-> [source |-> <<"str", "x">>]],
     [content |-> <<"c">>, author |-> Bob]}

\* SaveLinkedinPostDto and UpdateLinkedinPostDto with engagement and
\* metadata objects of numbers, text and booleans; 1e999 in a request body
\* is the number Infinity
JsonSaves ==
    {[content |-> <<"b">>, author |-> Bob, postUrl |-> <<"p", "1">>] @@ a @@ b :
        a \in Optional("engagement",
                       {[likes |-> <<"num", "1">>],
                        [likes |-> <<"num", "1">>, shares |-> <<"num", "2">>],
                        [likes |-> <<"num", "Infinity">>]}),
        b \in Optional("metadata",
                       {[source |-> <<"str", "w">>],
                        [flag |-> <<"bool", "true">>]})}

JsonUpdates ==
    {[title |-> <<"T">>],
     [engagement |-> [likes |-> <<"num", "2">>]],
     [engagement |-> [shares |-> <<"num", "Infinity">>]],
     [metadata |-> [source |-> <<"str", "w">>, flag |-> <<"bool", "false">>]]}

\* SaveLinkedinPostDto with every property
RichSaves == {data \in Saves : "engagement" \in DOMAIN data}

\* the row updatePost requests address: the first one created
UpdateTargets == {1}

\* CreateWebsiteSummaryDto
SummaryInputs ==
    {[title |-> <<"T">>, content |-> <<"a", "b">>, url |-> url] : url \in SiteUrls}
    \cup
    {[title |-> <<"T", "2">>, content |-> <<"b">>, url |-> url] : url \in SiteUrls}

\* requests for one key of each table
RaceSaves == {data \in Saves : data.postUrl = <<"p", "1">>}
RaceSummaries == {data \in SummaryInputs : data.url = <<"w", "1">>}
RaceUpdates == {[author |-> Bob]}

\* outcomes of openaiService.generateCompletion
CompletionFailed == [throws |-> FALSE, success |-> FALSE, data |-> Undefined]
CompletionThrew == [throws |-> TRUE, success |-> FALSE, data |-> Undefined]
CompletionText(text) == [throws |-> FALSE, success |-> TRUE, data |-> text]
Completions == {CompletionFailed, CompletionText(<<"s", " ">>)}
AllCompletions == Completions \cup {CompletionThrew, CompletionText(<<" ">>)}

SortFields == {"savedAt", "createdAt", "author", "title"}
SortOrders == {"asc", "desc"}
Dates == {toISOString(0), toISOString(1)}
Pages == [page : 1..MaxPage, limit : 1..MaxLimit]

\* LinkedinPostQueryParams: every combination of filters under the default
\* order, and every order without filters, each for every page and limit
GetPostsInputs ==
    {a @@ b @@ c @@ d @@ e @@ f :
        a \in Optional("search", {<<"a">>}),
        b \in Optional("author", {<<"a", "l">>}),
        c \in Optional("startDate", Dates),
        d \in Optional("endDate", Dates),
        e \in Pages,
        f \in {[sortBy |-> "savedAt", sortOrder |-> "desc"]}}
    \cup
    {e @@ f : e \in Pages, f \in [sortBy : SortFields, sortOrder : SortOrders]}

\* LinkedinPostQueryParams: every page and limit under the default order
PageInputs ==
    {e @@ [sortBy |-> "savedAt", sortOrder |-> "desc"] : e \in Pages}

\* LinkedinPostQueryParams of the first page: every limit, under every
\* order
WalkInputs ==
    {[page |-> 1, limit |-> limit] @@ f :
        limit \in 1..MaxLimit, f \in [sortBy : SortFields, sortOrder : SortOrders]}

\* one request body of POST /posts for each postUrl
KeySaves == {data \in Saves : "title" \in DOMAIN data}

\* request bodies of PUT /posts/:id that also name the columns of the key
KeyUpdates ==
    {[author |-> Bob],
     [title |-> <<"X">>, userId |-> "U2", postUrl |-> <<"p", "2">>],
     [content |-> <<"c">>, id |-> 2]}

\* LinkedinPostQueryParams: every combination of filters on the one page
\* that holds every row
FilterInputs ==
    {a @@ b @@ c @@ d @@ e :
        a \in Optional("search", {<<"t">>, <<"L">>}),
        b \in Optional("author", {<<"a", "l">>, Bob}),
        c \in Optional("startDate", Dates),
        d \in Optional("endDate", Dates),
        e \in {[page |-> 1, limit |-> MaxId, sortBy |-> "savedAt",
                sortOrder |-> "desc"]}}

\* A stock of rows saved before the requests of StatsSpec: author a of a
\* user holds AuthorCount(a) rows, saved one after the other, the sixth
\* most recent at the same instant as the fifth.
AuthorCount(a) == (a + 1) \div 2
MaxCount == AuthorCount(TopAuthorsTake + 1)
AuthorName(a) == <<"A">> \o Decimal(a)

\* row k of author a has number Stride * a + k
Stride == MaxCount + 1
StockIds(authors) ==
    UNION {{Stride * a + k : k \in 1..AuthorCount(a)} : a \in 1..authors}

StockSavedAt(ids, id) ==
    LET Rank(i) == Cardinality({j \in ids : j >= i})
    IN  IF Rank(id) = RecentPostsTake + 1
        THEN CHOOSE i \in ids : Rank(i) = RecentPostsTake
        ELSE id

\* a row of linkedin_posts as savePost left it
StockRow(userId, base, ids, id) ==
    [id |-> base + id,
     title |-> IF id % 2 = 0 THEN <<"T">> ELSE Null,
     content |-> <<"b">>,
     author |-> AuthorName(id \div Stride),
     postUrl |-> <<"p">> \o Decimal(id),
     linkedinPostId |-> Null,
     platform |-> <<"l", "i">>,
     engagement |-> Null,
     metadata |-> Null,
     savedAt |-> StockSavedAt(ids, id),
     userId |-> userId,
     createdAt |-> StockSavedAt(ids, id),
     updatedAt |-> StockSavedAt(ids, id)]

StockRows(userId, base, authors) ==
    {StockRow(userId, base, StockIds(authors), id) : id \in StockIds(authors)}

\* the instant by which the largest stock has been saved
StockClock == Stride * (TopAuthorsTake + 2)

\* numbers of authors: none, fewer rows than recentActivity takes, more
\* rows, more authors than topAuthors takes
StockSizes == {0, 3, 4, TopAuthorsTake + 1}

Shelves ==
    {StockRows("U1", 0, mine) \cup StockRows("U2", StockClock, others) :
        mine \in StockSizes, others \in {0, 3}}

\* texts an engagement or metadata column may hold: null, the empty string,
\* the text of an object, and texts that are not JSON
StoredTexts ==
    {Null, <<>>, JSONstringify([likes |-> <<"num", "1">>]), <<"{">>, <<"a">>}

\* tables of one or two rows of user U1 holding such texts
TornShelves ==
    {{[StockRow("U1", 0, {1}, 1) EXCEPT !.engagement = e, !.metadata = m]} \cup rest :
        e \in StoredTexts, m \in StoredTexts,
        rest \in {{}, {StockRow("U1", 0, {2}, 2)}}}

\* bodies of POST /api/website: each field absent, empty or present, the
\* url with and without a scheme, the content at both sides of each limit
BodyTitles == {Undefined, <<>>, <<"T">>}
BodyUrls == {Undefined, <<"w", "1">>, <<"w", "s", ":", "/">>, <<"w", ":", "1">>}
BodyContents ==
    {Undefined, <<>>, <<ShortRun>>, <<ShortRun, "a">>, <<LongRun>>,
     <<LongRun, "a">>}
Bodies == [title : BodyTitles, content : BodyContents, url : BodyUrls]

\* the routes of a router and the controller methods
RoutesOf(router) ==
    {Routers[router][i].route : i \in DOMAIN Routers[router]} \ {"*"}
Methods ==
    UNION {{Routers[r][i].handlers[Len(Routers[r][i].handlers)] :
               i \in DOMAIN Routers[r]} : r \in DOMAIN Routers}
        \ {"log", "authenticate"}

\* raw values of ?page= and ?limit=
RawChars == {"-", "0", "1", "2", "a"}
RawNumbers == UNION {[1..n -> RawChars] : n \in 0..MaxRawLen}

\* raw values of ?sortBy= and ?sortOrder=
RawSortBys == {"title", "content", "foo"}
RawSortOrders == {"asc", "sideways"}

\* req.query of GET /posts
Queries ==
    Optional("page", RawNumbers)
    \cup Optional("limit", RawNumbers)
    \cup {a @@ b : a \in Optional("sortBy", RawSortBys),
                   b \in Optional("sortOrder", RawSortOrders)}

-----------------------------------------------------------------------------
(* Specifications *)

Init ==
    /\ posts = {}
    /\ summaries = {}
    /\ nextId = 1
    /\ now = 0
    /\ pc = [p \in Procs |-> Idle]
    /\ prev = [call |-> Idle, posts |-> {}, summaries |-> {}, earlier |-> {},
               heard |-> <<>>]

\* the handler has sent its response and waits for the next request
Respond(p) ==
    /\ pc[p].step = "done"
    /\ pc[p] # Idle
    /\ pc' = [pc EXCEPT ![p] = Idle]
    /\ UNCHANGED <<posts, summaries, nextId, now>>

\* the clock that @default(now()) and @updatedAt read moves on
Tick ==
    /\ now < MaxClock
    /\ now' = now + 1
    /\ UNCHANGED <<posts, summaries, nextId, pc>>

\* Spec: two handlers serve mutating requests concurrently; every row is
\* stamped at one instant
Next ==
    \E p \in Procs :
        \/ pc[p] = Idle /\ \E userId \in Users, data \in RaceSaves :
                               SavePostFind(p, userId, data) /\ UNCHANGED prev
        \/ SavePostCreate(p) /\ UNCHANGED prev
        \/ pc[p] = Idle /\ \E userId \in Users, postId \in PostIds,
                                  updates \in RaceUpdates :
                               UpdatePostFind(p, userId, postId, updates) /\ UNCHANGED prev
        \/ UpdatePostWrite(p) /\ UNCHANGED prev
        \/ pc[p] = Idle /\ \E userId \in Users, postId \in PostIds :
                               DeletePostFind(p, userId, postId) /\ UNCHANGED prev
        \/ DeletePostWrite(p) /\ UNCHANGED prev
        \/ pc[p] = Idle /\ \E userId \in Users, postIds \in SUBSET PostIds :
                               BulkDeletePosts(p, userId, postIds) /\ UNCHANGED prev
        \/ pc[p] = Idle /\ \E userId \in Users, data \in RaceSummaries :
                               CreateSummaryFind(p, userId, data) /\ UNCHANGED prev
        \/ \E completion \in Completions :
               CreateSummaryGenerate(p, completion) /\ UNCHANGED prev
        \/ CreateSummaryInsert(p) /\ UNCHANGED prev
        \/ Respond(p) /\ UNCHANGED prev

Spec == Init /\ [][Next]_vars

\* ReadSpec: one handler fills the tables and serves reading requests, one
\* call at a time
ReadNext ==
    \/ pc["h1"] = Idle /\ \E userId \in Users, data \in Saves :
                              SavePostFind("h1", userId, data) /\ UNCHANGED prev
    \/ SavePostCreate("h1") /\ UNCHANGED prev
    \/ pc["h1"] = Idle /\ \E userId \in Users, data \in SummaryInputs :
                              CreateSummaryFind("h1", userId, data) /\ UNCHANGED prev
    \/ \E completion \in Completions :
           CreateSummaryGenerate("h1", completion) /\ UNCHANGED prev
    \/ CreateSummaryInsert("h1") /\ UNCHANGED prev
    \/ pc["h1"] = Idle /\ \E userId \in Users, params \in GetPostsInputs :
                              GetPostsCount("h1", userId, params) /\ UNCHANGED prev
    \/ GetPostsFindMany("h1") /\ UNCHANGED prev
    \/ pc["h1"] = Idle /\ \E userId \in Users, postId \in PostIds :
                              GetPostById("h1", userId, postId) /\ UNCHANGED prev
    \/ pc["h1"] = Idle /\ \E userId \in Users :
                              GetPostStatsBegin("h1", userId) /\ UNCHANGED prev
    \/ GetPostStatsQuery("h1") /\ UNCHANGED prev
    \/ pc["h1"] = Idle /\ \E userId \in Users, url \in SiteUrls :
                              GetSummaryByUrl("h1", userId, url) /\ UNCHANGED prev
    \/ Respond("h1") /\ UNCHANGED prev

ReadSpec == Init /\ [][ReadNext]_vars

\* the history ListSpec records when a request arrives: its req.query
Arrived(query) ==
    prev' = [prev EXCEPT !.call = [op |-> "GET /posts", step |-> "done",
                                    query |-> query]]

\* ListSpec: one handler fills the table of one user and serves that user's
\* GET /posts requests, from the raw query to the response
ListNext ==
    \/ pc["h1"] = Idle /\ \E data \in Saves :
                              SavePostFind("h1", "U1", data) /\ UNCHANGED prev
    \/ SavePostCreate("h1") /\ UNCHANGED prev
    \/ pc["h1"] = Idle /\ \E query \in Queries :
                              GetPostsRequest("h1", "U1", query) /\ Arrived(query)
    \/ GetPostsFindMany("h1") /\ UNCHANGED prev
    \/ Respond("h1") /\ prev' = [prev EXCEPT !.call = Idle]

ListSpec == Init /\ [][ListNext]_vars

\* the history a sequential specification records when a call begins: the
\* outcome of the call before, the tables now, and the summaries as they
\* were when the call before began
Remember(p) ==
    prev' = [call |-> pc[p], posts |-> posts, summaries |-> summaries,
             earlier |-> prev.summaries, heard |-> <<>>]

\* PostSpec: one handler serves LinkedinService requests, one call after
\* the other
PostNext ==
    \/ Remember("h1") /\ \E userId \in Users, data \in RaceSaves :
                             SavePostFind("h1", userId, data)
    \/ SavePostCreate("h1") /\ UNCHANGED prev
    \/ Remember("h1") /\ \E userId \in Users, postId \in PostIds, updates \in Updates :
                             UpdatePostFind("h1", userId, postId, updates)
    \/ UpdatePostWrite("h1") /\ UNCHANGED prev
    \/ Remember("h1") /\ \E userId \in Users, postId \in PostIds :
                             DeletePostFind("h1", userId, postId)
    \/ DeletePostWrite("h1") /\ UNCHANGED prev
    \/ Remember("h1") /\ \E userId \in Users, postIds \in SUBSET PostIds :
                             BulkDeletePosts("h1", userId, postIds)
    \/ Remember("h1") /\ \E userId \in Users, postId \in PostIds :
                             GetPostById("h1", userId, postId)

PostSpec == Init /\ [][PostNext]_vars

\* the history SummarySpec records when the completion client answers: what
\* it answered to the call being served
Heard(completion) ==
    prev' = [prev EXCEPT !.heard = Append(@, completion)]

\* SummarySpec: one handler serves WebsiteSummaryService requests, one call
\* after the other
SummaryNext ==
    \/ Remember("h1") /\ \E userId \in Users, data \in SummaryInputs :
                             CreateSummaryFind("h1", userId, data)
    \/ \E completion \in AllCompletions :
           CreateSummaryGenerate("h1", completion) /\ Heard(completion)
    \/ CreateSummaryInsert("h1") /\ UNCHANGED prev
    \/ Remember("h1") /\ \E userId \in Users, url \in SiteUrls :
                             GetSummaryByUrl("h1", userId, url)
    \/ Tick /\ UNCHANGED prev

SummarySpec == Init /\ [][SummaryNext]_vars

\* the history UpdateSpec records when a call begins: the table as it is
Began ==
    prev' = [prev EXCEPT !.posts = posts]

\* UpdateSpec: one handler saves posts and updates the first of them, one
\* call after the other, while the clock moves
UpdateNext ==
    \/ Began /\ \E userId \in Users, data \in RichSaves :
                   SavePostFind("h1", userId, data)
    \/ SavePostCreate("h1") /\ UNCHANGED prev
    \/ Began /\ \E userId \in Users, postId \in UpdateTargets,
                     updates \in UpdateInputs :
                   UpdatePostFind("h1", userId, postId, updates)
    \/ UpdatePostWrite("h1") /\ UNCHANGED prev
    \/ Tick /\ UNCHANGED prev

UpdateSpec == Init /\ [][UpdateNext]_vars

\* FilterSpec: one handler saves posts at different instants and serves
\* filtered getPosts calls, one call at a time
FilterNext ==
    \/ pc["h1"] = Idle /\ \E userId \in Users, data \in Saves :
                              SavePostFind("h1", userId, data) /\ UNCHANGED prev
    \/ SavePostCreate("h1") /\ UNCHANGED prev
    \/ pc["h1"] = Idle /\ \E userId \in Users, params \in FilterInputs :
                              GetPostsCount("h1", userId, params) /\ UNCHANGED prev
    \/ GetPostsFindMany("h1") /\ UNCHANGED prev
    \/ Respond("h1") /\ UNCHANGED prev
    \/ Tick /\ UNCHANGED prev

FilterSpec == Init /\ [][FilterNext]_vars

\* StatsSpec: the tables hold a stock of posts of both users and one
\* handler serves getPostStats calls, one at a time
StatsInit ==
    /\ posts \in Shelves
    /\ summaries = {}
    /\ nextId = 2 * StockClock
    /\ now \in {StockClock, StockClock + 1}
    /\ pc = [p \in Procs |-> Idle]
    /\ prev = [call |-> Idle, posts |-> {}, summaries |-> {}, earlier |-> {},
               heard |-> <<>>]

StatsNext ==
    \/ pc["h1"] = Idle /\ \E userId \in Users :
                              GetPostStatsBegin("h1", userId) /\ UNCHANGED prev
    \/ GetPostStatsQuery("h1") /\ UNCHANGED prev
    \/ Respond("h1") /\ UNCHANGED prev

StatsSpec == StatsInit /\ [][StatsNext]_vars

\* the history RoundTripSpec records when a call writes: the call
Writing ==
    prev' = [prev EXCEPT !.call = pc["h1"]]

\* RoundTripSpec: one handler saves and updates posts with engagement and
\* metadata objects and reads them back, one call after the other
RoundTripNext ==
    \/ pc["h1"] = Idle /\ \E userId \in Users, data \in JsonSaves :
                              SavePostFind("h1", userId, data) /\ UNCHANGED prev
    \/ SavePostCreate("h1") /\ Writing
    \/ pc["h1"] = Idle /\ \E userId \in Users, postId \in PostIds,
                                 updates \in JsonUpdates :
                              UpdatePostFind("h1", userId, postId, updates)
                              /\ UNCHANGED prev
    \/ UpdatePostWrite("h1") /\ Writing
    \/ pc["h1"] = Idle /\ \E userId \in Users, postId \in PostIds :
                              GetPostById("h1", userId, postId) /\ UNCHANGED prev
    \/ Respond("h1") /\ UNCHANGED prev

RoundTripSpec == Init /\ [][RoundTripNext]_vars

\* FormatSpec: the posts hold texts of every kind in their engagement and
\* metadata columns and one handler reads them, one call at a time
FormatInit ==
    /\ posts \in TornShelves
    /\ summaries = {}
    /\ nextId = Stride
    /\ now = 2
    /\ pc = [p \in Procs |-> Idle]
    /\ prev = [call |-> Idle, posts |-> {}, summaries |-> {}, earlier |-> {},
               heard |-> <<>>]

FormatNext ==
    \/ pc["h1"] = Idle /\ \E userId \in Users, postId \in PostIds :
                              GetPostById("h1", userId, postId) /\ UNCHANGED prev
    \/ pc["h1"] = Idle /\ \E userId \in Users, params \in Pages :
                              GetPostsCount("h1", userId,
                                            params @@ [sortBy |-> "savedAt",
                                                       sortOrder |-> "desc"])
                              /\ UNCHANGED prev
    \/ GetPostsFindMany("h1") /\ UNCHANGED prev
    \/ Respond("h1") /\ UNCHANGED prev

FormatSpec == FormatInit /\ [][FormatNext]_vars

\* the history AuthSpec records when a request arrives: the tables as they
\* are
Arriving ==
    prev' = [prev EXCEPT !.posts = posts, !.summaries = summaries]

\* AuthSpec: one handler serves requests to the three routers, with and
\* without credentials, and direct calls of the controller methods; the
\* savePost, deletePost, bulkDeletePosts and createSummary methods go on to
\* their service operations
AuthNext ==
    \/ Arriving /\ \E router \in DOMAIN Routers :
                 \E route \in RoutesOf(router), credentials \in Users \cup {NoUser},
                    passes \in BOOLEAN :
                     HttpRequest("h1", router, route, credentials, passes)
    \/ Arriving /\ \E method \in Methods, reqUser \in Users \cup {NoUser} :
                 ControllerCall("h1", method, reqUser)
    \/ Calls("h1", "savePost") /\ \E data \in RaceSaves :
           SavePostFind("h1", pc["h1"].userId, data) /\ UNCHANGED prev
    \/ SavePostCreate("h1") /\ UNCHANGED prev
    \/ Calls("h1", "deletePost") /\ \E postId \in PostIds :
           DeletePostFind("h1", pc["h1"].userId, postId) /\ UNCHANGED prev
    \/ DeletePostWrite("h1") /\ UNCHANGED prev
    \/ Calls("h1", "bulkDeletePosts") /\ \E postIds \in SUBSET PostIds :
           BulkDeletePosts("h1", pc["h1"].userId, postIds) /\ UNCHANGED prev
    \/ Calls("h1", "createSummary") /\ \E data \in RaceSummaries :
           CreateSummaryFind("h1", pc["h1"].userId, data) /\ UNCHANGED prev
    \/ \E completion \in Completions :
           CreateSummaryGenerate("h1", completion) /\ UNCHANGED prev
    \/ CreateSummaryInsert("h1") /\ UNCHANGED prev
    \/ Respond("h1") /\ UNCHANGED prev

AuthSpec == Init /\ [][AuthNext]_vars

\* CreateSpec: one handler serves POST /api/website requests, through the
\* route and by direct calls of createSummary, while the completion client
\* succeeds or fails
CreateNext ==
    \/ Arriving /\ \E reqUser \in Users, body \in Bodies :
                       CreateSummaryEndpoint("h1", reqUser, body)
    \/ Arriving /\ \E reqUser \in Users \cup {NoUser}, body \in Bodies :
                       CreateSummaryController("h1", reqUser, body)
    \/ \E completion \in Completions :
           CreateSummaryGenerate("h1", completion) /\ UNCHANGED prev
    \/ CreateSummaryInsert("h1") /\ UNCHANGED prev
    \/ CreateSummaryAnswer("h1") /\ UNCHANGED prev
    \/ Respond("h1") /\ pc["h1"].op = "createSummary" /\ UNCHANGED prev

CreateSpec == Init /\ [][CreateNext]_vars

\* the history PagingSpec records: the table as the count query saw it and
\* as the findMany query saw it
Counted == prev' = [prev EXCEPT !.earlier = posts]
Found == prev' = [prev EXCEPT !.posts = posts]

\* PagingSpec: handler h1 serves getPosts calls while handler h2 serves
\* savePost, deletePost and bulkDeletePosts calls, whose steps fall before,
\* between and after the two queries of a getPosts call
PagingNext ==
    \/ Counted /\ pc["h1"] = Idle /\ \E userId \in Users, params \in PageInputs :
                                         GetPostsCount("h1", userId, params)
    \/ Found /\ GetPostsFindMany("h1")
    \/ pc["h2"] = Idle /\ \E userId \in Users, data \in Saves :
                              SavePostFind("h2", userId, data) /\ UNCHANGED prev
    \/ SavePostCreate("h2") /\ UNCHANGED prev
    \/ pc["h2"] = Idle /\ \E userId \in Users, postId \in PostIds :
                              DeletePostFind("h2", userId, postId) /\ UNCHANGED prev
    \/ DeletePostWrite("h2") /\ UNCHANGED prev
    \/ pc["h2"] = Idle /\ \E userId \in Users, postIds \in SUBSET PostIds :
                              BulkDeletePosts("h2", userId, postIds) /\ UNCHANGED prev
    \/ \E p \in Procs : Respond(p) /\ UNCHANGED prev

PagingSpec == Init /\ [][PagingNext]_vars

\* the ids of the rows the getPosts call of h1 will have returned
Page == [i \in DOMAIN pc'["h1"].result.data.data |->
            pc'["h1"].result.data.data[i].id]

\* the history WalkSpec records: the pages of the walk so far
Turned ==
    prev' = [prev EXCEPT !.heard =
                 IF pc'["h1"].result.success THEN Append(@, Page) ELSE @]

\* WalkSpec: one handler fills the table of user U1, then walks the pages 1,
\* 2, ... of one listing with successive getPosts calls; nothing is written
\* during a walk
WalkNext ==
    \/ pc["h1"] = Idle /\ \E data \in Saves :
                              SavePostFind("h1", "U1", data) /\ UNCHANGED prev
    \/ SavePostCreate("h1") /\ UNCHANGED prev
    \/ Tick /\ pc["h1"] = Idle /\ UNCHANGED prev
    \/ pc["h1"] = Idle /\ \E params \in WalkInputs :
                              GetPostsCount("h1", "U1", params) /\ UNCHANGED prev
    \/ GetPostsFindMany("h1") /\ Turned
    \/ /\ pc["h1"].op = "getPosts"
       /\ pc["h1"].step = "done"
       /\ pc["h1"].result.success
       /\ pc["h1"].args.page < pc["h1"].result.data.pagination.totalPages
       /\ GetPostsCount("h1", "U1",
                        [pc["h1"].args EXCEPT !.page = @ + 1])
       /\ UNCHANGED prev
    \/ /\ Respond("h1")
       /\ (pc["h1"].op = "getPosts" /\ pc["h1"].result.success) =>
              pc["h1"].args.page >= pc["h1"].result.data.pagination.totalPages
       /\ prev' = [prev EXCEPT !.heard = <<>>]

WalkSpec == Init /\ [][WalkNext]_vars

\* the history TallySpec records: the table as the first sub-query of the
\* getPostStats call in h1 read it, and whether a later sub-query read other
\* rows of the caller
Asked == prev' = [prev EXCEPT !.heard = <<>>, !.earlier = {}]
QueryRead ==
    prev' = IF prev.heard = <<>>
            THEN [prev EXCEPT !.earlier = posts, !.heard = <<"same">>]
            ELSE IF {row \in posts : row.userId = pc["h1"].userId}
                        = {row \in prev.earlier : row.userId = pc["h1"].userId}
            THEN prev
            ELSE [prev EXCEPT !.heard = <<"changed">>]

\* TallySpec: handler h1 serves getPostStats calls while handler h2 serves
\* savePost and deletePost calls, whose writes fall before, between and
\* after the five sub-queries
TallyNext ==
    \/ Asked /\ pc["h1"] = Idle /\ \E userId \in Users :
                                       GetPostStatsBegin("h1", userId)
    \/ GetPostStatsQuery("h1") /\ QueryRead
    \/ pc["h2"] = Idle /\ \E userId \in Users, data \in Saves :
                              SavePostFind("h2", userId, data) /\ UNCHANGED prev
    \/ SavePostCreate("h2") /\ UNCHANGED prev
    \/ pc["h2"] = Idle /\ \E userId \in Users, postId \in PostIds :
                              DeletePostFind("h2", userId, postId) /\ UNCHANGED prev
    \/ DeletePostWrite("h2") /\ UNCHANGED prev
    \/ \E p \in Procs : Respond(p) /\ UNCHANGED prev

TallySpec == Init /\ [][TallyNext]_vars

\* KeySpec: two handlers serve every mutating operation concurrently, the
\* updatePost calls with bodies that name id, userId and postUrl
KeyNext ==
    \E p \in Procs :
        \/ pc[p] = Idle /\ \E userId \in Users, data \in KeySaves :
                               SavePostFind(p, userId, data) /\ UNCHANGED prev
        \/ SavePostCreate(p) /\ UNCHANGED prev
        \/ pc[p] = Idle /\ \E userId \in Users, postId \in PostIds,
                                  updates \in KeyUpdates :
                               UpdatePostFind(p, userId, postId, updates) /\ UNCHANGED prev
        \/ UpdatePostWrite(p) /\ UNCHANGED prev
        \/ pc[p] = Idle /\ \E userId \in Users, postId \in PostIds :
                               DeletePostFind(p, userId, postId) /\ UNCHANGED prev
        \/ DeletePostWrite(p) /\ UNCHANGED prev
        \/ pc[p] = Idle /\ \E userId \in Users, postIds \in SUBSET PostIds :
                               BulkDeletePosts(p, userId, postIds) /\ UNCHANGED prev
        \/ pc[p] = Idle /\ \E userId \in Users, data \in RaceSummaries :
                               CreateSummaryFind(p, userId, data) /\ UNCHANGED prev
        \/ CreateSummaryGenerate(p, CompletionText(<<"s", " ">>)) /\ UNCHANGED prev
        \/ CreateSummaryInsert(p) /\ UNCHANGED prev
        \/ Respond(p) /\ UNCHANGED prev

KeySpec == Init /\ [][KeyNext]_vars

-----------------------------------------------------------------------------
(* Properties *)

\* handler p holds the outcome of a completed call of op
Completed(p, op) == pc[p].step = "done" /\ pc[p].op = op

\* C1: in every reachable state the store holds at most one LinkedinPost
\* per (userId, postUrl) and at most one WebsiteSummary per (userId, url),
\* whatever the interleaving of the mutating calls.
C1_OnePerKey ==
    /\ \A a, b \in posts :
           a.userId = b.userId /\ a.postUrl = b.postUrl => a = b
    /\ \A a, b \in summaries :
           a.userId = b.userId /\ a.url = b.url => a = b

\* two savePost calls for one key both passed the existence check; one has
\* inserted and the other is about to
C1_Witness ==
    /\ pc["h1"].op = "savePost" /\ pc["h1"].step = "create"
    /\ Completed("h2", "savePost")
    /\ pc["h2"].userId = pc["h1"].userId
    /\ pc["h2"].args.postUrl = pc["h1"].args.postUrl
    /\ pc["h2"].result.success
    /\ \E row \in posts : row.id = pc["h2"].result.data.id

\* C2: a create request whose INSERT is rejected by the uniqueness
\* constraint still completes successfully and returns the record the
\* winner stored.
C2_LoserReturnsWinner ==
    [][\A p \in Procs :
          /\ pc[p].step = "create"
          /\ pc'[p].step = "done"
          /\ IF pc[p].op = "savePost"
             THEN PostUniqueViolation(pc[p].userId, pc[p].args.postUrl)
             ELSE SummaryUniqueViolation(pc[p].userId, pc[p].args.url)
          => /\ pc'[p].result.success
             /\ IF pc[p].op = "savePost"
                THEN \E row \in posts :
                        /\ row.userId = pc[p].userId
                        /\ row.postUrl = pc[p].args.postUrl
                        /\ pc'[p].result.data.id = row.id
                ELSE \E row \in summaries :
                        /\ row.userId = pc[p].userId
                        /\ row.url = pc[p].args.url
                        /\ pc'[p].result.data.id = row.id]_vars

\* the rows of a table that a user owns
OwnedBy(rows, userId) == {row \in rows : row.userId = userId}

\* the posts stored under a key when the current call of h1 began
StoredBefore(userId, postUrl) ==
    {row \in prev.posts : row.userId = userId /\ row.postUrl = postUrl}

\* C3: a savePost for a (userId, postUrl) that is already stored writes
\* nothing and returns the stored record with the fields of the first save,
\* even when the second payload differs.
C3_SaveExistingReturnsStored ==
    Completed("h1", "savePost")
    /\ StoredBefore(pc["h1"].userId, pc["h1"].args.postUrl) # {}
    => /\ posts = prev.posts
       /\ \E row \in StoredBefore(pc["h1"].userId, pc["h1"].args.postUrl) :
              pc["h1"].result = Success(formatPost(row))

\* a second save of a stored key by a payload with another author and content
C3_Witness ==
    /\ Completed("h1", "savePost")
    /\ \E row \in StoredBefore(pc["h1"].userId, pc["h1"].args.postUrl) :
           /\ row.author # pc["h1"].args.author
           /\ row.content # pc["h1"].args.content
           /\ pc["h1"].result.success
           /\ pc["h1"].result.data.author = row.author

\* C5: the result of savePost reports whether the record is new: isNew is
\* true for the first save of a (userId, postUrl) and false for a following
\* save of the same key.
C5_SavePostReportsIsNew ==
    Completed("h1", "savePost") /\ pc["h1"].result.success
    => /\ "isNew" \in DOMAIN pc["h1"].result.data
       /\ pc["h1"].result.data.isNew
              = (StoredBefore(pc["h1"].userId, pc["h1"].args.postUrl) = {})

\* the current call of h1 is getPostById, updatePost or deletePost for postId
ByIdCall(postId) ==
    /\ pc["h1"].step = "done"
    /\ \/ pc["h1"].op = "getPostById" /\ pc["h1"].args = postId
       \/ pc["h1"].op = "updatePost" /\ pc["h1"].args[1] = postId
       \/ pc["h1"].op = "deletePost" /\ pc["h1"].args = postId

\* C8: getPostById, updatePost and deletePost answer an id that does not
\* exist and an id that belongs to another user alike, with the 404
\* 'LinkedIn post not found', and leave the store unchanged.
C8_NotFoundAlike ==
    \A postId \in PostIds :
        ByIdCall(postId)
        /\ postId \notin {row.id : row \in OwnedBy(prev.posts, pc["h1"].userId)}
        => /\ pc["h1"].result = AppError("LinkedIn post not found", 404)
           /\ posts = prev.posts

\* updatePost or deletePost was refused for the id of another user's post
C8_Witness ==
    \E postId \in PostIds :
        /\ ByIdCall(postId)
        /\ pc["h1"].op \in {"updatePost", "deletePost"}
        /\ \E row \in prev.posts : row.id = postId /\ row.userId # pc["h1"].userId
        /\ pc["h1"].result.statusCode = 404

\* h1 has completed a createOrGetSummary right after a successful
\* createOrGetSummary of the same (userId, url), which no row held before
SecondCreate ==
    /\ Completed("h1", "createOrGetSummary")
    /\ prev.call.op = "createOrGetSummary"
    /\ prev.call.userId = pc["h1"].userId
    /\ prev.call.args.url = pc["h1"].args.url
    /\ prev.call.result.success
    /\ \A row \in prev.earlier :
           row.userId # pc["h1"].userId \/ row.url # pc["h1"].args.url

\* C4: of two createOrGetSummary calls in sequence for the same
\* (userId, url), the first returns isNew = true and the second isNew =
\* false; both carry the same id and the title, content and summary first
\* stored; the second writes nothing and makes no completion call.
C4_SecondCallReturnsFirst ==
    SecondCreate
    => LET first == prev.call.result.data
           second == pc["h1"].result
       IN  /\ first.isNew
           /\ second.success
           /\ ~second.data.isNew
           /\ second.data.id = first.id
           /\ second.data.title = prev.call.args.title
           /\ second.data.content = prev.call.args.content
           /\ second.data.title = first.title
           /\ second.data.content = first.content
           /\ second.data.summary = first.summary
           /\ summaries = prev.summaries
           /\ pc["h1"].calls = 0

\* the second call carried another title and content than the first
C4_Witness ==
    /\ SecondCreate
    /\ pc["h1"].args.title # prev.call.args.title
    /\ pc["h1"].args.content # prev.call.args.content
    /\ prev.call.calls = 1

\* the user a step of handler p acts for
Actor(p) == IF "userId" \in DOMAIN pc[p] THEN pc[p].userId ELSE pc'[p].userId

\* C6: no step of an operation invoked with one userId changes, removes or
\* adds a record of another user, whatever the interleaving and whatever
\* ids the caller supplies.
C6_OthersUntouched ==
    [][\A p \in Procs :
          pc'[p] # pc[p]
          => \A other \in Users \ {Actor(p)} :
                 /\ OwnedBy(posts', other) = OwnedBy(posts, other)
                 /\ OwnedBy(summaries', other) = OwnedBy(summaries, other)]_vars

\* a delete, bulk delete or update named the id of a stored post of
\* another user and has completed
C6_Witness ==
    \E p \in Procs :
        /\ pc[p].step = "done"
        /\ pc[p].op \in {"updatePost", "deletePost", "bulkDeletePosts"}
        /\ \E row \in posts :
               /\ row.userId # pc[p].userId
               /\ \/ pc[p].op = "updatePost" /\ pc[p].args[1] = row.id
                  \/ pc[p].op = "deletePost" /\ pc[p].args = row.id
                  \/ pc[p].op = "bulkDeletePosts" /\ row.id \in pc[p].args

\* the ids of a sequence of response items
IdsOf(items) == {items[i].id : i \in DOMAIN items}

\* C7: getPosts returns only records of the caller, under every
\* combination of search, author, date range, sort and page; getPostById,
\* getSummaryByUrl and getPostStats likewise read only the caller's records.
C7_ReadsScopedToCaller ==
    LET call == pc["h1"]
        mine == OwnedBy(posts, call.userId)
    IN  /\ Completed("h1", "getPosts") =>
               IdsOf(call.result.data.data) \subseteq {row.id : row \in mine}
        /\ Completed("h1", "getPostById") /\ call.result.success =>
               call.result.data.id \in {row.id : row \in mine}
        /\ Completed("h1", "getSummaryByUrl") /\ call.result.data # NullRec =>
               call.result.data.id
                   \in {row.id : row \in OwnedBy(summaries, call.userId)}
        /\ Completed("h1", "getPostStats") =>
               LET stats == call.result.data
               IN  /\ stats.totalPosts = Cardinality(mine)
                   /\ IdsOf(stats.recentActivity) \subseteq {row.id : row \in mine}
                   /\ \A i \in DOMAIN stats.topAuthors :
                          stats.topAuthors[i].count =
                              Cardinality({row \in mine :
                                  row.author = stats.topAuthors[i].author})

\* a list, a single read, a summary read or the statistics returned a
\* record of the caller while the other user holds records of the same
\* table too
C7_Witness ==
    LET call == pc["h1"]
    IN  \/ /\ Completed("h1", "getPosts")
           /\ call.result.data.data # <<>>
           /\ \E row \in posts : row.userId # call.userId
           /\ DOMAIN call.args = {"page", "limit", "sortBy", "sortOrder"}
        \/ /\ Completed("h1", "getPostStats")
           /\ call.result.data.totalPosts = 1
           /\ Cardinality(posts) = 2

\* C9: a getPosts call returns min(limit, max(0, total - (page-1)*limit))
\* items, total being the total of the same response; the calls are served
\* one at a time.
C9_PageLength ==
    Completed("h1", "getPosts")
    => LET page == pc["h1"].result.data.pagination
       IN  Len(pc["h1"].result.data.data)
               = Min(page.limit,
                     Max(0, page.total - (page.page - 1) * page.limit))

\* a last page shorter than the limit, on a page after the first
C9_Witness ==
    /\ Completed("h1", "getPosts")
    /\ pc["h1"].args.page = 2
    /\ pc["h1"].args.limit = 1
    /\ pc["h1"].result.data.pagination.total = 2
    /\ Len(pc["h1"].result.data.data) = 1

\* totalPages is ceil(total / limit)
IsCeil(totalPages, total, limit) ==
    /\ totalPages * limit >= total
    /\ (totalPages - 1) * limit < total

IsInteger(raw) ==
    LET digits == IF raw # <<>> /\ Head(raw) = "-" THEN Tail(raw) ELSE raw
    IN  digits # <<>> /\ \A i \in DOMAIN digits : IsDigit(digits[i])

\* the integer such a raw value denotes
IntegerOf(raw) ==
    IF Head(raw) = "-" THEN 0 - LeadingDigits(Tail(raw), 0)
    ELSE LeadingDigits(raw, 0)

\* raw holds no digit at all
NonNumeric(raw) == \A i \in DOMAIN raw : ~IsDigit(raw[i])

\* C11: whatever the raw page and limit of a list request, the service is
\* handed page >= 1 and 1 <= limit <= 100: an absent or non-numeric value
\* becomes the default (page 1, limit 20), a limit below 1 becomes 1 and a
\* limit above 100 becomes 100.
C11_PageLimitClamped ==
    pc["h1"].op = "getPosts"
    => LET query == prev.call.query
           params == pc["h1"].args
       IN  /\ params.page >= 1
           /\ params.limit >= 1
           /\ params.limit <= 100
           /\ ("page" \notin DOMAIN query \/ NonNumeric(Get(query, "page")))
                  => params.page = 1
           /\ ("limit" \notin DOMAIN query \/ NonNumeric(Get(query, "limit")))
                  => params.limit = 20
           /\ ("limit" \in DOMAIN query /\ IsInteger(Get(query, "limit")))
                  => /\ IntegerOf(query.limit) < 1 => params.limit = 1
                     /\ IntegerOf(query.limit) > 100 => params.limit = 100

\* C12: every list query the storage layer executes is ordered by a sortBy
\* of the allow-list (savedAt, createdAt, author, title) and a sortOrder in
\* {asc, desc}; no other requested value is ever used by a query.
C12_SortAllowListed ==
    Completed("h1", "getPosts") /\ pc["h1"].result.success
    => /\ pc["h1"].args.sortBy \in SortFields
       /\ pc["h1"].args.sortOrder \in SortOrders

\* the columns updatePost never writes and the ones it may write
FixedColumns ==
    {"id", "userId", "postUrl", "linkedinPostId", "platform", "savedAt",
     "createdAt"}
UpdatableColumns == {"title", "content", "author", "engagement", "metadata"}

\* the row with this id in a table
RowOf(table, postId) == CHOOSE row \in table : row.id = postId

\* handler h1 holds the outcome of an updatePost that wrote
Updated == Completed("h1", "updatePost") /\ pc["h1"].result.success

\* C13: after updatePost(userId, id, updates) the row keeps id, userId,
\* postUrl, linkedinPostId, platform, savedAt and every updatable column
\* that is not a property of updates, and every other row is as it was
\* when the call began.
C13_UpdateTouchesGivenOnly ==
    Updated =>
        LET postId == pc["h1"].args[1]
            updates == pc["h1"].args[2]
            old == RowOf(prev.posts, postId)
            new == RowOf(posts, postId)
        IN  /\ \A f \in FixedColumns : new[f] = old[f]
            /\ \A f \in UpdatableColumns \ DOMAIN updates : new[f] = old[f]
            /\ posts \ {new} = prev.posts \ {old}

\* an update of content alone has rewritten it on a row that holds
\* engagement, at a later instant than the save, beside another row
C13_Witness ==
    /\ Updated
    /\ DOMAIN pc["h1"].args[2] = {"content"}
    /\ LET old == RowOf(prev.posts, pc["h1"].args[1])
           new == RowOf(posts, pc["h1"].args[1])
       IN  /\ new.content # old.content
           /\ new.engagement # Null
           /\ new.updatedAt # new.savedAt
    /\ Cardinality(posts) = 2

\* what a column holds once a given property has been written to it
Stored(name, value) ==
    IF name \in {"engagement", "metadata"}
    THEN IF value = NullRec THEN Null ELSE JSONstringify(value)
    ELSE value

\* C14: after updatePost every property present in updates, the empty
\* string and null included, has been written to its column.
C14_PresentFieldOverwrites ==
    Updated =>
        LET updates == pc["h1"].args[2]
            new == RowOf(posts, pc["h1"].args[1])
        IN  \A f \in UpdatableColumns \cap DOMAIN updates :
                new[f] = Stored(f, updates[f])

\* the rows a bulk delete of the caller names and owns, as stored when the
\* call began
NamedAndOwned ==
    {row \in prev.posts :
        row.id \in pc["h1"].args /\ row.userId = pc["h1"].userId}

\* C15: bulkDeletePosts(userId, postIds) removes exactly the rows whose id
\* is in postIds and whose userId is the caller's, leaves every other row as
\* it was, and returns their number as deletedCount; for an empty list that
\* is 0 and the table is as it was.
C15_BulkDeleteExact ==
    Completed("h1", "bulkDeletePosts")
    => /\ posts = prev.posts \ NamedAndOwned
       /\ pc["h1"].result = Success([deletedCount |-> Cardinality(NamedAndOwned)])
       /\ pc["h1"].args = {} => posts = prev.posts

\* a bulk delete named a row of the caller and a row of another user, and
\* removed the one
C15_Witness ==
    /\ Completed("h1", "bulkDeletePosts")
    /\ Cardinality(NamedAndOwned) = 1
    /\ pc["h1"].result.data.deletedCount = 1
    /\ \E row \in posts : row.id \in pc["h1"].args /\ row.userId # pc["h1"].userId

\* the completion client threw, reported failure, or returned no text or
\* nothing but white space
NoText(completion) ==
    \/ completion.throws
    \/ ~completion.success
    \/ ~Truthy(completion.data)
    \/ Trim(completion.data) = <<>>

GenericFailures ==
    {AppError("Failed to generate article summary", 500),
     AppError("Failed to generate summary", 500)}

\* C16: when the completion client fails or returns no text during a
\* createOrGetSummary for a URL the user has not stored, the call ends in a
\* generic 500 error, the summaries are as they were when the call began,
\* and the client has been invoked exactly once.
C16_CompletionFailureLeavesStore ==
    Completed("h1", "createOrGetSummary")
    /\ prev.heard # <<>>
    /\ NoText(prev.heard[1])
    => /\ pc["h1"].result \in GenericFailures
       /\ summaries = prev.summaries
       /\ Len(prev.heard) = 1
       /\ pc["h1"].calls = 1

\* the client threw during a createOrGetSummary while another summary was
\* stored, and the call has ended
C16_Witness ==
    /\ Completed("h1", "createOrGetSummary")
    /\ prev.heard = <<CompletionThrew>>
    /\ pc["h1"].result.statusCode = 500
    /\ summaries # {}
    /\ \A row \in summaries :
           row.userId # pc["h1"].userId \/ row.url # pc["h1"].args.url

\* handler h1 holds the list a getPosts call returned
Listed == Completed("h1", "getPosts") /\ pc["h1"].result.success

\* the ids a completed getPosts call returned
ListedIds == IdsOf(pc["h1"].result.data.data)

\* params without its date bounds
NoDates(params) ==
    [f \in DOMAIN params \ {"startDate", "endDate"} |-> params[f]]

\* both date bounds are supplied
BothDates(params) ==
    Truthy(Get(params, "startDate")) /\ Truthy(Get(params, "endDate"))

\* C17: getPosts keeps, of the rows the same query without date bounds
\* returns, those with startDate <= savedAt <= endDate when both bounds are
\* supplied, and all of them when one or none is.
C17_DateRangeNeedsBoth ==
    Listed =>
        LET params == pc["h1"].args
            undated == PostsWhere(GetPostsWhere(pc["h1"].userId, NoDates(params)))
        IN  ListedIds =
                {row.id : row \in
                    {r \in undated :
                        BothDates(params) =>
                            /\ r.savedAt >= NewDate(params.startDate)
                            /\ r.savedAt <= NewDate(params.endDate)}}

\* a list bounded on both sides by the instant of its one row left out an
\* earlier row of the caller
C17_Witness ==
    /\ Listed
    /\ BothDates(pc["h1"].args)
    /\ pc["h1"].args.startDate = pc["h1"].args.endDate
    /\ \E row \in posts :
           /\ ListedIds = {row.id}
           /\ row.savedAt = NewDate(pc["h1"].args.startDate)
    /\ \E row \in OwnedBy(posts, pc["h1"].userId) :
           row.savedAt < NewDate(pc["h1"].args.startDate)

\* a list bounded on one side only returned a row outside that bound
C17_OneBoundWitness ==
    /\ Listed
    /\ DOMAIN pc["h1"].args \cap {"startDate", "endDate"} = {"startDate"}
    /\ \E row \in posts :
           /\ row.id \in ListedIds
           /\ row.savedAt < NewDate(pc["h1"].args.startDate)

\* C18: getPosts returns a row iff it is the caller's and contains the
\* author filter, if given, and lies in the date range, if both bounds are
\* given, and, if search is given, contains it in title, content or author,
\* letter case aside.
C18_FiltersConjoined ==
    Listed =>
        LET params == pc["h1"].args
            search == Get(params, "search")
        IN  ListedIds =
                {row.id : row \in
                    {r \in posts :
                        /\ r.userId = pc["h1"].userId
                        /\ Truthy(Get(params, "author")) =>
                               ContainsInsensitive(r.author, params.author)
                        /\ BothDates(params) =>
                               /\ r.savedAt >= NewDate(params.startDate)
                               /\ r.savedAt <= NewDate(params.endDate)
                        /\ Truthy(search) =>
                               \/ ContainsInsensitive(r.title, search)
                               \/ ContainsInsensitive(r.content, search)
                               \/ ContainsInsensitive(r.author, search)}}

\* a list with search, author and both date bounds returned a row that
\* holds the search in its author alone and in another letter case, and left
\* out a row of the caller
C18_Witness ==
    /\ Listed
    /\ {"search", "author", "startDate", "endDate"} \subseteq DOMAIN pc["h1"].args
    /\ \E row \in posts :
           /\ row.id \in ListedIds
           /\ ~ContainsInsensitive(row.title, pc["h1"].args.search)
           /\ ~ContainsInsensitive(row.content, pc["h1"].args.search)
           /\ ~Contains(row.author, pc["h1"].args.search)
    /\ \E row \in OwnedBy(posts, pc["h1"].userId) : row.id \notin ListedIds

\* C19: with author = a, getPosts returns only rows whose stored author is
\* exactly a.
C19_AuthorExact ==
    Listed /\ Truthy(Get(pc["h1"].args, "author"))
    => \A i \in DOMAIN pc["h1"].result.data.data :
           pc["h1"].result.data.data[i].author = pc["h1"].args.author

\* C20: getPostStats(userId) returns totalPosts equal to the number of the
\* caller's rows; topAuthors with at most 10 entries, distinct authors of
\* the caller's rows, each with that author's number of the caller's rows,
\* in non-increasing count order; and recentActivity with at most 5 of the
\* caller's rows in non-increasing savedAt order, no row of the caller left
\* out being later than a row returned.
C20_StatsOfCaller ==
    Completed("h1", "getPostStats") =>
        LET mine == OwnedBy(posts, pc["h1"].userId)
            stats == pc["h1"].result.data
            top == stats.topAuthors
            recent == stats.recentActivity
        IN  /\ stats.totalPosts = Cardinality(mine)
            /\ Len(top) <= 10
            /\ \A i, j \in DOMAIN top : i # j => top[i].author # top[j].author
            /\ \A i \in DOMAIN top :
                   /\ top[i].count > 0
                   /\ top[i].count =
                          Cardinality({row \in mine : row.author = top[i].author})
            /\ \A i, j \in DOMAIN top : i < j => top[i].count >= top[j].count
            /\ Len(recent) <= 5
            /\ \A i, j \in DOMAIN recent : i # j => recent[i].id # recent[j].id
            /\ \A i \in DOMAIN recent :
                   \E row \in mine :
                       /\ row.id = recent[i].id
                       /\ toISOString(row.savedAt) = recent[i].savedAt
            /\ \A i, j \in DOMAIN recent :
                   i < j => NewDate(recent[i].savedAt) >= NewDate(recent[j].savedAt)
            /\ \A row \in mine :
                   row.id \notin IdsOf(recent) =>
                       \A i \in DOMAIN recent :
                           row.savedAt <= NewDate(recent[i].savedAt)

\* the statistics of a user with more than 10 authors and more than 5 rows,
\* beside rows of the other user by the same authors, hold 10 authors and
\* 5 rows
C20_Witness ==
    /\ Completed("h1", "getPostStats")
    /\ LET mine == OwnedBy(posts, pc["h1"].userId)
           stats == pc["h1"].result.data
       IN  /\ Cardinality({row.author : row \in mine}) > 10
           /\ Len(stats.topAuthors) = 10
           /\ Len(stats.recentActivity) = 5
           /\ \E row \in posts, own \in mine :
                  row.userId # pc["h1"].userId /\ row.author = own.author

ReadOps == {"getPosts", "getPostById", "getPostStats", "getSummaryByUrl"}

\* C21: no step of getPosts, getPostById, getPostStats or getSummaryByUrl,
\* whether the call succeeds or fails, changes the posts or the summaries.
C21_ReadsLeaveStore ==
    [][pc'["h1"] # pc["h1"] /\ pc'["h1"].op \in ReadOps
          => posts' = posts /\ summaries' = summaries]_vars

\* a getPostById has ended in 404 while posts and summaries are stored
C21_Witness ==
    /\ Completed("h1", "getPostById")
    /\ ~pc["h1"].result.success
    /\ posts # {}
    /\ summaries # {}

\* the payload of the last call that wrote, and whether the completed
\* getPostById read the row it wrote
Supplied == IF prev.call.op = "savePost" THEN prev.call.args ELSE prev.call.args[2]
ReadBack ==
    /\ Completed("h1", "getPostById")
    /\ pc["h1"].result.success
    /\ prev.call.op \in {"savePost", "updatePost"}
    /\ prev.call.userId = pc["h1"].userId
    /\ IF prev.call.op = "savePost"
       THEN pc["h1"].result.data.postUrl = prev.call.args.postUrl
       ELSE pc["h1"].args = prev.call.args[1]

\* C22: a read of a row returns, for engagement and for metadata, an object
\* equal to the one the last savePost or updatePost that wrote the row
\* supplied for it.
C22_JsonRoundTrip ==
    ReadBack =>
        \A f \in {"engagement", "metadata"} :
            Given(Supplied, f) => pc["h1"].result.data[f] = Supplied[f]

\* a non-null column text that is not JSON, the empty string included
Malformed(text) == text # Null /\ JSONparse(text) = SyntaxError

\* C23: a getPostById of a stored row of the caller fails when its
\* engagement or metadata column holds a non-null text that is not JSON,
\* the empty string included; otherwise it succeeds and returns null for a
\* null column.
C23_MalformedJsonFails ==
    Completed("h1", "getPostById")
    => \A row \in OwnedBy(posts, pc["h1"].userId) :
           row.id = pc["h1"].args =>
               IF Malformed(row.engagement) \/ Malformed(row.metadata)
               THEN ~pc["h1"].result.success
               ELSE /\ pc["h1"].result.success
                    /\ \A f \in {"engagement", "metadata"} :
                           row[f] = Null => pc["h1"].result.data[f] = NullRec

\* C24: in a request to the linkedin, summary or website router every
\* function that runs, runs after authenticate; and a request without an
\* authenticated user, through a router or straight to a controller method,
\* is answered 401 with no service called and the store as it was.
C24_HandlersBehindAuthenticate ==
    pc["h1"].op = "http" =>
        /\ pc["h1"].router # "none" =>
               \A i \in DOMAIN pc["h1"].ran :
                   pc["h1"].ran[i] # "authenticate" =>
                       \E j \in 1..(i - 1) : pc["h1"].ran[j] = "authenticate"
        /\ pc["h1"].credentials = NoUser =>
               /\ pc["h1"].status = 401
               /\ pc["h1"].service = "none"
               /\ posts = prev.posts
               /\ summaries = prev.summaries

\* C25: the website-summary create endpoint answers an authenticated
\* request with 201 exactly when the service result has isNew = true, and
\* then this request inserted the record; with 200 exactly when isNew =
\* false, and then the record existed and nothing was written; with 400 and
\* no service call when title, content or url is missing, the url does not
\* parse, or the content is shorter than 100 or longer than 100000
\* characters.
Rejectable(body) ==
    \/ body.title \in {Undefined, <<>>}
    \/ body.content \in {Undefined, <<>>}
    \/ body.url \in {Undefined, <<>>}
    \/ ~URLParses(body.url)
    \/ Length(body.content) < 100
    \/ Length(body.content) > 100000

KeyedAs(rows, userId, url) ==
    {r \in rows : r.userId = userId /\ r.url = url}

C25_CreateStatusByIsNew ==
    (pc["h1"].op = "createSummary" /\ pc["h1"].userId # NoUser) =>
        LET body == pc["h1"].args
            called == pc["h1"].service = "createOrGetSummary"
            isNew(b) == /\ called
                        /\ pc["h1"].result.success
                        /\ pc["h1"].result.data.isNew = b
        IN  /\ pc["h1"].status = 201 <=> isNew(TRUE)
            /\ pc["h1"].status = 200 <=> isNew(FALSE)
            /\ isNew(TRUE) =>
                   /\ KeyedAs(prev.summaries, pc["h1"].userId, body.url) = {}
                   /\ \E r \in summaries \ prev.summaries :
                          /\ r.id = pc["h1"].result.data.id
                          /\ r.userId = pc["h1"].userId
                          /\ r.url = body.url
            /\ isNew(FALSE) =>
                   /\ summaries = prev.summaries
                   /\ \E r \in KeyedAs(summaries, pc["h1"].userId, body.url) :
                          r.id = pc["h1"].result.data.id
            /\ Rejectable(body) =>
                   /\ pc["h1"].status = 400
                   /\ ~called
                   /\ summaries = prev.summaries

C25_Witness ==
    /\ pc["h1"].op = "createSummary"
    /\ pc["h1"].status = 200
    /\ Length(pc["h1"].args.content) = MaxContentLength
    /\ summaries # {}

\* C26: when deletePost or updatePost runs concurrently with another
\* deletePost or bulkDeletePosts on the same record, every call ends in
\* success or in the 404 'LinkedIn post not found' error, never in a 500,
\* and of two deletePost calls for one record at most one is left
\* reporting success.
C26_RacingWritesSucceedOr404 ==
    /\ \A p \in Procs :
           (pc[p].op \in {"deletePost", "updatePost"} /\ pc[p].step = "done") =>
               \/ pc[p].result.success
               \/ /\ pc[p].result.statusCode = 404
                  /\ pc[p].result.error = "LinkedIn post not found"
    /\ (/\ pc["h1"].op = "deletePost" /\ pc["h1"].step = "done"
        /\ pc["h2"].op = "deletePost" /\ pc["h2"].step = "done"
        /\ pc["h1"].args = pc["h2"].args
        /\ pc["h1"].result.success)
           => ~pc["h2"].result.success

\* the rows the where clause of the listing in h1 matches in a table
MatchedIn(rows) ==
    {row \in rows :
        PostMatches(row, GetPostsWhere(pc["h1"].userId, pc["h1"].args))}

\* no row follows the returned page in the table the findMany query read
LastPage ==
    LET pg == pc["h1"].result.data.pagination
    IN  (pg.page - 1) * pg.limit + Len(pc["h1"].result.data.data)
            >= Cardinality(MatchedIn(prev.posts))

\* the count query and the findMany query read the same rows
SameRowsRead == MatchedIn(prev.earlier) = MatchedIn(prev.posts)

\* C27 as stated: in every getPosts response, also when writes of the same
\* user fall between its count and its findMany query, data.length <= limit,
\* (page - 1) * limit + data.length <= total, and hasNext is false whenever
\* data is the last page.
C27_TotalAndDataAgree ==
    Listed =>
        LET data == pc["h1"].result.data.data
            pg == pc["h1"].result.data.pagination
        IN  /\ Len(data) <= pg.limit
            /\ (pg.page - 1) * pg.limit + Len(data) <= pg.total
            /\ LastPage => ~pg.hasNext

\* C27 as amended: in every getPosts response data.length <= limit; when
\* the count and the findMany query read the same rows, a page that holds
\* records has (page - 1) * limit + data.length <= total, and hasNext is
\* false whenever data is the last page.
C27_PageWithinCountedTotal ==
    Listed =>
        LET data == pc["h1"].result.data.data
            pg == pc["h1"].result.data.pagination
        IN  /\ Len(data) <= pg.limit
            /\ SameRowsRead =>
                   /\ data # <<>> =>
                          (pg.page - 1) * pg.limit + Len(data) <= pg.total
                   /\ LastPage => ~pg.hasNext

C27_Witness ==
    /\ Listed
    /\ SameRowsRead
    /\ pc["h1"].result.data.pagination.page = 2
    /\ pc["h1"].result.data.pagination.total = 2
    /\ Len(pc["h1"].result.data.data) = 1
    /\ pc["h2"].op = "deletePost"

\* the walk of h1 has fetched the pages 1..totalPages
WalkDone ==
    /\ Listed
    /\ pc["h1"].args.page >= pc["h1"].result.data.pagination.totalPages
    /\ Len(prev.heard) = pc["h1"].result.data.pagination.totalPages

\* the places of the walk's pages where a row appears
PlacesOf(id) ==
    {<<i, j>> \in (DOMAIN prev.heard) \X (1..MaxLimit) :
        j \in DOMAIN prev.heard[i] /\ prev.heard[i][j] = id}

\* C28: on an unchanging store, the pages 1..totalPages returned by
\* successive getPosts calls with the same filters, order and limit contain
\* every matching record of the caller exactly once, also when records share
\* the sortBy value.
C28_PagesHoldEveryRecordOnce ==
    WalkDone =>
        \A row \in MatchedIn(posts) : Cardinality(PlacesOf(row.id)) = 1

\* the sum of the counts of a sequence of groups
RECURSIVE CountSum(_)
CountSum(groups) ==
    IF groups = <<>> THEN 0 ELSE Head(groups).count + CountSum(Tail(groups))

\* the stats object h1 holds is consistent in itself
StatsAgree ==
    LET stats == pc["h1"].result.data
    IN  /\ stats.postsThisMonth <= stats.totalPosts
        /\ stats.postsThisWeek <= stats.totalPosts
        /\ CountSum(stats.topAuthors) <= stats.totalPosts
        /\ Len(stats.recentActivity) <= Min(5, stats.totalPosts)

\* the five sub-queries read the same rows of the caller
OneTableRead == prev.heard = <<"same">>

\* C29 as stated: every getPostStats result is consistent in itself
\* (postsThisMonth <= totalPosts, postsThisWeek <= totalPosts, the sum of the
\* topAuthors counts <= totalPosts, recentActivity.length <= min(5,
\* totalPosts)), also when savePost or deletePost calls of the same user
\* fall between its five sub-queries.
C29_StatsConsistent ==
    Completed("h1", "getPostStats") => StatsAgree

\* C29 as amended: a getPostStats result is consistent in itself when no
\* savePost or deletePost call changes the caller's rows between its five
\* sub-queries.
C29_StatsConsistentOnOneTable ==
    (Completed("h1", "getPostStats") /\ OneTableRead) => StatsAgree

C29_Witness ==
    /\ Completed("h1", "getPostStats")
    /\ OneTableRead
    /\ pc["h1"].result.data.totalPosts = 2
    /\ pc["h1"].result.data.postsThisMonth = 2
    /\ Len(pc["h1"].result.data.recentActivity) = 2
    /\ pc["h2"].op = "deletePost"

\* the key columns of the rows that are stored before and after a step are
\* the same
KeysKept(before, after, url) ==
    \A old \in before : \A new \in after :
        new.id = old.id => new.userId = old.userId /\ new[url] = old[url]

\* no two rows of a table share the id or the (userId, url) key
KeysApart(rows, url) ==
    \A a, b \in rows :
        a # b => a.id # b.id /\ <<a.userId, a[url]>> # <<b.userId, b[url]>>

\* C30: the id, userId and postUrl of a LinkedinPost and the id, userId and
\* url of a WebsiteSummary never change after creation, whatever operations
\* run: no updatePost moves a record to another owner or makes two records
\* share an id or a (userId, postUrl) key.
C30_KeysNeverChange ==
    [][/\ KeysKept(posts, posts', "postUrl")
       /\ KeysKept(summaries, summaries', "url")
       /\ KeysApart(posts', "postUrl")
       /\ KeysApart(summaries', "url")]_vars

\* an updatePost whose body names another owner and another postUrl has
\* written to one of two stored rows
C30_Witness ==
    /\ Completed("h1", "updatePost")
    /\ pc["h1"].result.success
    /\ "userId" \in DOMAIN pc["h1"].args[2]
    /\ Cardinality(posts) = 2
    /\ \E row \in posts : row.title = <<"X">> /\ row.userId = "U1"

====
